---------------------------- MODULE Spec2Model ----------------------------
(***************************************************************************)
(* OpenMindMap: the node collection, the id counter, the radial layout,    *)
(* the custom-position overrides and the drag / undo / import / reset      *)
(* handlers of the editor, as the React components of the repository       *)
(* implement them.                                                         *)
(*                                                                         *)
(* The repository holds several variants of the App component:             *)
(*   "file"    src/src/App.jsx 1-1080     save / load a JSON file          *)
(*   "storage" src/src/App.jsx 1082-1939  local storage, reset, grid snap  *)
(*   "undo"    src/unnamed/part_001 163-1011  undo / redo, grid snap       *)
(*   "import"  src/unnamed/part_002       sanitising import / export       *)
(* The variable `variant` says which one is running.                       *)
(*                                                                         *)
(* Strings that the code formats or parses (node ids) are sequences of     *)
(* one-character strings.  Coordinates are integers (one unit = one SVG    *)
(* user unit); angles are exact rationals <<n, d>> in units of pi.         *)
(* One action is one DOM event: the handler, the render that follows and   *)
(* the effects of that render.                                             *)
(***************************************************************************)
EXTENDS Integers, Sequences, FiniteSets, TLC

(***************************************************************************)
(* Bounds of the model                                                     *)
(***************************************************************************)
\* addChild is not taken once the collection holds MaxNodes nodes
MaxNodes == 4
\* addChild is not taken once the id counter exceeds MaxCounter
MaxCounter == 4
\* no snapshot is pushed once the undo stack holds MaxHistory snapshots
MaxHistory == 1

(***************************************************************************)
(* Program constants                                                       *)
(***************************************************************************)
LEVEL_SPACING == 220
GRID_SIZE == 40

(***************************************************************************)
(* Strings                                                                 *)
(***************************************************************************)
\* JavaScript null / undefined where an id is expected
Null == << "null" >>

Digits == << "0", "1", "2", "3", "4", "5", "6", "7", "8", "9" >>

IsDigit(c) == \E i \in 1..10 : Digits[i] = c

DigitValue(c) == (CHOOSE i \in 1..10 : Digits[i] = c) - 1

\* String(n) for an integer n >= 0
RECURSIVE NumberToString(_)
NumberToString(n) ==
    IF n < 10 THEN << Digits[n + 1] >>
    ELSE Append(NumberToString(n \div 10), Digits[(n % 10) + 1])

\* Number.parseInt(s, 10) of a string of digits
RECURSIVE ParseInt(_)
ParseInt(s) ==
    IF Len(s) = 0 THEN 0
    ELSE 10 * ParseInt(SubSeq(s, 1, Len(s) - 1)) + DigitValue(s[Len(s)])

NodePrefix == << "n", "o", "d", "e", "-" >>

\* `node-${n}`
NodeId(n) == NodePrefix \o NumberToString(n)

RootId == << "r", "o", "o", "t" >>

\* the longest run of digits of s that starts at position i
RECURSIVE DigitRun(_, _)
DigitRun(s, i) ==
    IF i <= Len(s) /\ IsDigit(s[i]) THEN << s[i] >> \o DigitRun(s, i + 1)
    ELSE << >>

\* positions where /node-(\d+)/ matches
MatchPositions(s) ==
    { i \in 1..Len(s) :
        /\ i + Len(NodePrefix) <= Len(s)
        /\ SubSeq(s, i, i + Len(NodePrefix) - 1) = NodePrefix
        /\ IsDigit(s[i + Len(NodePrefix)]) }

Min(S) == CHOOSE x \in S : \A y \in S : x <= y

\* a faulty match: the pattern has to be the whole id (/^node-(\d+)$/)
MatchNodeId_WholeId(s) ==
    IF /\ Len(s) > Len(NodePrefix)
       /\ SubSeq(s, 1, Len(NodePrefix)) = NodePrefix
       /\ \A i \in (Len(NodePrefix) + 1)..Len(s) : IsDigit(s[i])
    THEN SubSeq(s, Len(NodePrefix) + 1, Len(s))
    ELSE Null

\* s.match(/node-(\d+)/): the captured digits of the leftmost match, or Null
MatchNodeId(s) ==
    IF MatchPositions(s) = {} THEN Null
    ELSE DigitRun(s, Min(MatchPositions(s)) + Len(NodePrefix))

\* the reducer of nextIdFromInitial / getNextIdFromNodes / computeNextIdFromNodes
RECURSIVE MaxSuffix(_, _)
MaxSuffix(ns, acc) ==
    IF Len(ns) = 0 THEN acc
    ELSE LET match == MatchNodeId(Head(ns).id)
             n == ParseInt(match)
         IN  MaxSuffix(Tail(ns),
                       IF match = Null THEN acc ELSE IF n > acc THEN n ELSE acc)

computeNextIdFromNodes(ns) == MaxSuffix(ns, 0) + 1

getNextIdFromNodes(ns) == MaxSuffix(ns, 0) + 1

(***************************************************************************)
(* The node collection                                                     *)
(***************************************************************************)
Node(id, label, parentId) == [id |-> id, label |-> label, parentId |-> parentId]

INITIAL_NODES ==
    << Node(RootId, "Ma carte mentale", Null),
       Node(NodeId(1), "Idee cle #1", RootId),
       Node(NodeId(2), "Idee cle #2", RootId) >>

nextIdFromInitial == MaxSuffix(INITIAL_NODES, 0) + 1

createDefaultNodes == INITIAL_NODES

Range(s) == { s[i] : i \in 1..Len(s) }

Ids(ns) == { ns[i].id : i \in 1..Len(ns) }

\* no node: the null of rootNode and selectedNode (rootNode?.id is then Null)
NullNode == Node(Null, "", Null)

\* nodes.find((node) => node.parentId === null) ?? null
RootNodeOf(ns) ==
    LET roots == SelectSeq(ns, LAMBDA n : n.parentId = Null)
    IN  IF Len(roots) = 0 THEN NullNode ELSE Head(roots)

\* nodes.find((item) => item.id === selectedId) ?? rootNode
SelectedNodeOf(ns, sel) ==
    LET found == SelectSeq(ns, LAMBDA n : n.id = sel)
    IN  IF Len(found) = 0 THEN RootNodeOf(ns) ELSE Head(found)

\* a faulty forEach of getBranchToDelete: without the test on toDelete.has
BranchChildren_WithoutHas(children, acc) ==
    [toDelete |-> acc.toDelete \cup { children[i].id : i \in 1..Len(children) },
     stack |-> acc.stack \o [i \in 1..Len(children) |-> children[i].id]]

\* the forEach of getBranchToDelete: adds and pushes each child not yet in toDelete
RECURSIVE BranchChildren(_, _)
BranchChildren(children, acc) ==
    IF Len(children) = 0 THEN acc
    ELSE LET child == Head(children)
         IN  BranchChildren(Tail(children),
                 IF child.id \in acc.toDelete THEN acc
                 ELSE [toDelete |-> acc.toDelete \cup {child.id},
                       stack |-> Append(acc.stack, child.id)])

\* the while loop of getBranchToDelete: stack is the work list
RECURSIVE BranchLoop(_, _, _)
BranchLoop(ns, toDelete, stack) ==
    IF Len(stack) = 0 THEN toDelete
    ELSE LET current == stack[Len(stack)]
             popped == SubSeq(stack, 1, Len(stack) - 1)
             children == SelectSeq(ns, LAMBDA n : n.parentId = current)
             acc == BranchChildren(children, [toDelete |-> toDelete, stack |-> popped])
         IN  BranchLoop(ns, acc.toDelete, acc.stack)

\* a faulty getBranchToDelete: the selected node alone, its children never visited
getBranchToDelete_NoCascade(ns, selectedId) == {selectedId}

getBranchToDelete(ns, selectedId) == BranchLoop(ns, {selectedId}, << selectedId >>)

(***************************************************************************)
(* Numbers: coordinates are integers, angles are rationals in units of pi  *)
(***************************************************************************)
RECURSIVE GCD(_, _)
GCD(a, b) == IF b = 0 THEN a ELSE GCD(b, a % b)

Abs(a) == IF a < 0 THEN -a ELSE a

\* the rational n / d (d > 0) in lowest terms
Rat(n, d) ==
    LET g == GCD(Abs(n), d)
    IN  IF n = 0 THEN << 0, 1 >> ELSE << n \div g, d \div g >>

RatAdd(a, b) == Rat(a[1] * b[2] + b[1] * a[2], a[2] * b[2])
RatSub(a, b) == Rat(a[1] * b[2] - b[1] * a[2], a[2] * b[2])
RatMulInt(a, k) == Rat(a[1] * k, a[2])
RatDivInt(a, k) == Rat(a[1], a[2] * k)

\* Math.PI * 2
TwoPi == << 2, 1 >>

\* Math.round(a / b) for b > 0: the nearest integer, halves towards +infinity
RoundDiv(a, b) == (2 * a + b) \div (2 * b)

\* sin(t * pi) for 0 <= t <= 1 as a fraction << num, den >> (Bhaskara's
\* rational approximation, exact at 0, 1/6, 1/2, 5/6 and 1)
SinHalfTurn(t) ==
    LET p == t[1] * (t[2] - t[1])
    IN  << 16 * p, 5 * t[2] * t[2] - 4 * p >>

\* Math.sin(a) for an angle 0 <= a <= 2 pi
Sin(a) ==
    IF a[1] <= a[2] THEN SinHalfTurn(a)
    ELSE LET s == SinHalfTurn(RatSub(a, << 1, 1 >>)) IN << -s[1], s[2] >>

\* Math.cos(a) = sin(a + pi / 2)
Cos(a) ==
    LET b == RatAdd(a, << 1, 2 >>)
    IN  Sin(IF b[1] > 2 * b[2] THEN RatSub(b, TwoPi) ELSE b)

(***************************************************************************)
(* Objects keyed by id                                                     *)
(***************************************************************************)
EmptyMap == [k \in {} |-> 0]

\* { ...m, [k]: v }
Put(m, k, v) == [j \in DOMAIN m \cup {k} |-> IF j = k THEN v ELSE m[j]]

\* { ...a, ...b }
Spread(a, b) == [j \in DOMAIN a \cup DOMAIN b |-> IF j \in DOMAIN b THEN b[j] ELSE a[j]]

\* m restricted to the keys in K
Restrict(m, K) == [j \in DOMAIN m \cap K |-> m[j]]

(***************************************************************************)
(* Layout Engine                                                           *)
(***************************************************************************)
\* a faulty childrenMap: the nodes whose parentId names no node are listed
\* with the children of the root
ChildrenOf_OrphansUnderRoot(ns, nodeId) ==
    SelectSeq(ns, LAMBDA n :
        /\ n.parentId # Null
        /\ \/ n.parentId = nodeId
           \/ nodeId = RootNodeOf(ns).id /\ n.parentId \notin Ids(ns))

\* a faulty childrenMap: the grandchildren of a node are listed among its
\* children as well
ChildrenOf_WithGrandchildren(ns, nodeId) ==
    SelectSeq(ns, LAMBDA n :
        /\ n.parentId # Null
        /\ \/ n.parentId = nodeId
           \/ \E i \in 1..Len(ns) : ns[i].id = n.parentId /\ ns[i].parentId = nodeId)

\* a faulty childrenMap: the children are listed last first
ChildrenOf_Reversed(ns, nodeId) ==
    LET found == SelectSeq(ns, LAMBDA n : n.parentId # Null /\ n.parentId = nodeId)
    IN  [i \in 1..Len(found) |-> found[Len(found) + 1 - i]]

\* a faulty childrenMap: a node is also listed under each of its children
ChildrenOf_BothWays(ns, nodeId) ==
    SelectSeq(ns, LAMBDA n :
        \/ n.parentId # Null /\ n.parentId = nodeId
        \/ \E i \in 1..Len(ns) : ns[i].id = nodeId /\ ns[i].parentId = n.id)

\* childrenMap.get(nodeId) ?? []: the nodes with that parentId, in collection order
ChildrenOf(ns, nodeId) ==
    SelectSeq(ns, LAMBDA n : n.parentId # Null /\ n.parentId = nodeId)

\* traverse(nodeId, startAngle, endAngle, depth), from child number `index`
\* (x and y are kept to the nearest unit)
\* (counted from 0) on; children is childrenMap.get(nodeId)
RECURSIVE traverse(_, _, _, _, _, _, _)
\* a faulty traverse: the children of a child are given their parent's depth
traverse_FlatDepth(ns, positions, children, index, startAngle, endAngle, depth) ==
    IF index >= Len(children) THEN positions
    ELSE LET child == children[index + 1]
             total == Len(children)
             childStart ==
                 RatAdd(startAngle,
                        RatDivInt(RatMulInt(RatSub(endAngle, startAngle), index), total))
             childEnd ==
                 RatAdd(startAngle,
                        RatDivInt(RatMulInt(RatSub(endAngle, startAngle), index + 1), total))
             angle == RatDivInt(RatAdd(childStart, childEnd), 2)
             radius == depth * LEVEL_SPACING
             placed ==
                 Put(positions, child.id,
                     [x |-> RoundDiv(Cos(angle)[1] * radius, Cos(angle)[2]),
                      y |-> RoundDiv(Sin(angle)[1] * radius, Sin(angle)[2]),
                      depth |-> depth,
                      angleStart |-> childStart,
                      angleEnd |-> childEnd])
             below ==
                 traverse(ns, placed, ChildrenOf(ns, child.id), 0,
                          childStart, childEnd, depth)
         IN  traverse(ns, below, children, index + 1, startAngle, endAngle, depth)
traverse(ns, positions, children, index, startAngle, endAngle, depth) ==
    IF index >= Len(children) THEN positions
    ELSE LET child == children[index + 1]
             total == Len(children)
             childStart ==
                 RatAdd(startAngle,
                        RatDivInt(RatMulInt(RatSub(endAngle, startAngle), index), total))
             childEnd ==
                 RatAdd(startAngle,
                        RatDivInt(RatMulInt(RatSub(endAngle, startAngle), index + 1), total))
             angle == RatDivInt(RatAdd(childStart, childEnd), 2)
             radius == depth * LEVEL_SPACING
             placed ==
                 Put(positions, child.id,
                     [x |-> RoundDiv(Cos(angle)[1] * radius, Cos(angle)[2]),
                      y |-> RoundDiv(Sin(angle)[1] * radius, Sin(angle)[2]),
                      depth |-> depth,
                      angleStart |-> childStart,
                      angleEnd |-> childEnd])
             below ==
                 traverse(ns, placed, ChildrenOf(ns, child.id), 0,
                          childStart, childEnd, depth + 1)
         IN  traverse(ns, below, children, index + 1, startAngle, endAngle, depth)

\* a faulty computeLayout: without a root the first node is taken as the root
computeLayout_FirstNodeAsRoot(ns) ==
    LET rootNode == IF RootNodeOf(ns) = NullNode /\ Len(ns) > 0 THEN ns[1] ELSE RootNodeOf(ns)
        positions ==
            Put(EmptyMap, rootNode.id,
                [x |-> 0, y |-> 0, depth |-> 0,
                 angleStart |-> << 0, 1 >>, angleEnd |-> TwoPi])
    IN  IF rootNode = NullNode THEN EmptyMap
        ELSE traverse(ns, positions, ChildrenOf(ns, rootNode.id), 0, << 0, 1 >>, TwoPi, 1)

computeLayout(ns) ==
    LET rootNode == RootNodeOf(ns)
        positions ==
            Put(EmptyMap, rootNode.id,
                [x |-> 0, y |-> 0, depth |-> 0,
                 angleStart |-> << 0, 1 >>, angleEnd |-> TwoPi])
    IN  IF rootNode = NullNode THEN EmptyMap
        ELSE traverse(ns, positions, ChildrenOf(ns, rootNode.id), 0, << 0, 1 >>, TwoPi, 1)

(***************************************************************************)
(* The sectors as the engine computes them: JavaScript Numbers             *)
(* (IEEE 754 binary64, round to nearest, ties to even)                     *)
(***************************************************************************)
\* natural numbers of any size: their digits in base 2^LimbBits, most
\* significant first, no leading zero
LimbBits == 13
LimbBase == 2^LimbBits

RECURSIVE StripZeros(_)
StripZeros(a) == IF a # << >> /\ Head(a) = 0 THEN StripZeros(Tail(a)) ELSE a

Front(a) == SubSeq(a, 1, Len(a) - 1)
LastLimb(a) == IF a = << >> THEN 0 ELSE a[Len(a)]

RECURSIVE BigAddCarry(_, _, _)
BigAddCarry(a, b, carry) ==
    IF a = << >> /\ b = << >> THEN << carry >>
    ELSE LET sum == LastLimb(a) + LastLimb(b) + carry
         IN  Append(BigAddCarry(IF a = << >> THEN a ELSE Front(a),
                                IF b = << >> THEN b ELSE Front(b),
                                sum \div LimbBase),
                    sum % LimbBase)

BigAdd(a, b) == StripZeros(BigAddCarry(a, b, 0))

\* a - b for a >= b
RECURSIVE BigSubBorrow(_, _, _)
BigSubBorrow(a, b, borrow) ==
    IF a = << >> THEN << >>
    ELSE LET diff == LastLimb(a) - LastLimb(b) - borrow
         IN  Append(BigSubBorrow(Front(a), IF b = << >> THEN b ELSE Front(b),
                                 IF diff < 0 THEN 1 ELSE 0),
                    diff % LimbBase)

BigSub(a, b) == StripZeros(BigSubBorrow(a, b, 0))

\* a * k for a small k
RECURSIVE BigMulCarry(_, _, _)
BigMulCarry(a, k, carry) ==
    IF a = << >> THEN << carry >>
    ELSE LET digit == LastLimb(a) * k + carry
         IN  Append(BigMulCarry(Front(a), k, digit \div LimbBase), digit % LimbBase)

BigMul(a, k) == StripZeros(BigMulCarry(a, k, 0))

\* long division by a small n: << quotient, remainder >>
RECURSIVE BigDivRem(_, _, _, _)
BigDivRem(a, n, quotient, rem) ==
    IF a = << >> THEN << StripZeros(quotient), rem >>
    ELSE LET r == rem * LimbBase + Head(a)
         IN  BigDivRem(Tail(a), n, Append(quotient, r \div n), r % n)

RECURSIVE BigLessSameLen(_, _)
BigLessSameLen(a, b) ==
    /\ a # << >>
    /\ \/ Head(a) < Head(b)
       \/ Head(a) = Head(b) /\ BigLessSameLen(Tail(a), Tail(b))

BigLess(a, b) == Len(a) < Len(b) \/ (Len(a) = Len(b) /\ BigLessSameLen(a, b))

BigAbsDiff(a, b) == IF BigLess(a, b) THEN BigSub(b, a) ELSE BigSub(a, b)

\* the number of binary digits of a
BitLength(a) ==
    IF a = << >> THEN 0
    ELSE LimbBits * (Len(a) - 1)
         + (CHOOSE k \in 1..LimbBits : 2^(k - 1) <= Head(a) /\ Head(a) < 2^k)

\* a * 2^k
RECURSIVE ShiftLeft(_, _)
ShiftLeft(a, k) ==
    IF k >= LimbBits THEN ShiftLeft(BigMul(a, 2^(LimbBits - 1)), k - (LimbBits - 1))
    ELSE BigMul(a, 2^k)

\* << a \div 2^k, whether a nonzero digit was shifted out (or lost before) >>
RECURSIVE ShiftRight(_, _, _)
ShiftRight(a, k, lost) ==
    LET step == IF k >= LimbBits THEN LimbBits - 1 ELSE k
        qr == BigDivRem(a, 2^step, << >>, 0)
    IN  IF k <= 0 THEN << a, lost >>
        ELSE ShiftRight(qr[1], k - step, lost \/ qr[2] # 0)

\* a non-negative binary64 number: m * 2^e with 2^52 <= m < 2^53, or zero
MantissaBits == 53
DoubleZero == [m |-> << >>, e |-> 0]

\* the binary64 number nearest to n * 2^e, ties to even; sticky: nonzero
\* digits below those of n were lost
RoundToDouble(n, e, sticky) ==
    LET L == BitLength(n)
        drop == L - MantissaBits
        kept == ShiftRight(n, drop - 1, sticky)
        halved == BigDivRem(kept[1], 2, << >>, 0)
        top == halved[1]
        up == halved[2] = 1 /\ (kept[2] \/ LastLimb(top) % 2 = 1)
        rounded == IF up THEN BigAdd(top, << 1 >>) ELSE top
    IN  IF L = 0 THEN DoubleZero
        ELSE IF drop <= 0 THEN [m |-> ShiftLeft(n, -drop), e |-> e + drop]
        ELSE IF BitLength(rounded) > MantissaBits
        THEN [m |-> ShiftRight(rounded, 1, FALSE)[1], e |-> e + drop + 1]
        ELSE [m |-> rounded, e |-> e + drop]

MinInt(a, b) == IF a < b THEN a ELSE b

\* the smaller exponent of two numbers (zero has none)
CommonExponent(a, b) ==
    IF a.m = << >> THEN b.e ELSE IF b.m = << >> THEN a.e ELSE MinInt(a.e, b.e)

\* the integer n with a = n * 2^exponent (exponent <= a.e)
AtExponent(a, exponent) ==
    IF a.m = << >> THEN << >> ELSE ShiftLeft(a.m, a.e - exponent)

\* a + b
DoubleAdd(a, b) ==
    LET common == CommonExponent(a, b)
    IN  RoundToDouble(BigAdd(AtExponent(a, common), AtExponent(b, common)),
                      common, FALSE)

\* a - b for a >= b
DoubleSub(a, b) ==
    LET common == CommonExponent(a, b)
    IN  RoundToDouble(BigSub(AtExponent(a, common), AtExponent(b, common)),
                      common, FALSE)

\* a * k and a / n for small non-negative integers k and n
DoubleMulInt(a, k) == RoundToDouble(BigMul(a.m, k), a.e, FALSE)

DoubleDivInt(a, n) ==
    LET qr == BigDivRem(ShiftLeft(a.m, LimbBits - 1), n, << >>, 0)
    IN  RoundToDouble(qr[1], a.e - (LimbBits - 1), qr[2] # 0)

DoubleLess(a, b) ==
    LET common == CommonExponent(a, b)
    IN  BigLess(AtExponent(a, common), AtExponent(b, common))

\* Math.PI * 2 = 0x1.921fb54442d18p+2
TwoPiDouble == [m |-> << 1, 4675, 7893, 545, 3352 >>, e |-> -50]

\* a faulty childStart: the startAngle of the parent is not added
childStartOf_WithoutStart(startAngle, endAngle, index, total) ==
    DoubleDivInt(DoubleMulInt(DoubleSub(endAngle, startAngle), index), total)

\* startAngle + ((endAngle - startAngle) * index) / total
childStartOf(startAngle, endAngle, index, total) ==
    DoubleAdd(startAngle,
              DoubleDivInt(DoubleMulInt(DoubleSub(endAngle, startAngle), index), total))

\* a faulty childEnd: every child's sector runs to the end of its parent's
childEndOf_ToParentEnd(startAngle, endAngle, index, total) == endAngle

\* startAngle + ((endAngle - startAngle) * (index + 1)) / total
childEndOf(startAngle, endAngle, index, total) ==
    DoubleAdd(startAngle,
              DoubleDivInt(DoubleMulInt(DoubleSub(endAngle, startAngle), index + 1),
                           total))

\* traverse, keeping of each position its angleStart and angleEnd as Numbers
RECURSIVE traverseSectors(_, _, _, _, _, _)
traverseSectors(ns, sectors, children, index, startAngle, endAngle) ==
    IF index >= Len(children) THEN sectors
    ELSE LET child == children[index + 1]
             total == Len(children)
             sectorStart == childStartOf(startAngle, endAngle, index, total)
             sectorEnd == childEndOf(startAngle, endAngle, index, total)
             placed ==
                 Put(sectors, child.id,
                     [angleStart |-> sectorStart, angleEnd |-> sectorEnd])
             below ==
                 traverseSectors(ns, placed, ChildrenOf(ns, child.id), 0,
                                 sectorStart, sectorEnd)
         IN  traverseSectors(ns, below, children, index + 1, startAngle, endAngle)

\* computeLayout, keeping of each position its angleStart and angleEnd as Numbers
computeSectors(ns) ==
    LET root == RootNodeOf(ns)
        sectors ==
            Put(EmptyMap, root.id,
                [angleStart |-> DoubleZero, angleEnd |-> TwoPiDouble])
    IN  IF root = NullNode THEN EmptyMap
        ELSE traverseSectors(ns, sectors, ChildrenOf(ns, root.id), 0,
                             DoubleZero, TwoPiDouble)

(***************************************************************************)
(* Position Resolver                                                       *)
(***************************************************************************)
\* a faulty merge: a node without a layout position gets no entry
MergePositions_LayoutOnly(ns, layoutPositions, custom) ==
    [id \in { j \in Ids(ns) : j \in DOMAIN layoutPositions } |->
        IF id \in DOMAIN custom
        THEN Spread(layoutPositions[id], custom[id])
        ELSE layoutPositions[id]]

\* a faulty merge: the spread is written the other way round
MergePositions_LayoutLast(ns, layoutPositions, custom) ==
    [id \in { j \in Ids(ns) : j \in DOMAIN layoutPositions \/ j \in DOMAIN custom } |->
        IF id \in DOMAIN layoutPositions /\ id \in DOMAIN custom
        THEN Spread(custom[id], layoutPositions[id])
        ELSE IF id \in DOMAIN layoutPositions THEN layoutPositions[id]
        ELSE custom[id]]

\* the `positions` memo: layout merged with the custom positions
MergePositions(ns, layoutPositions, custom) ==
    [id \in { j \in Ids(ns) : j \in DOMAIN layoutPositions \/ j \in DOMAIN custom } |->
        IF id \in DOMAIN layoutPositions /\ id \in DOMAIN custom
        THEN Spread(layoutPositions[id], custom[id])
        ELSE IF id \in DOMAIN layoutPositions THEN layoutPositions[id]
        ELSE custom[id]]

(***************************************************************************)
(* Inputs: labels typed, pointer events, documents loaded                  *)
(***************************************************************************)
Point(x, y) == [x |-> x, y |-> y]

\* the texts typed into the label input
Labels == { "A" }

\* the pointer ids of pointer events
PointerIds == { 1, 2 }

\* where the pointer is (SVG coordinates) in a pointermove event
Points == { Point(110, 55) }

\* where a node is grabbed: pointerdown happens on the node's own element,
\* at this offset from the node's position
GrabOffsets == { Point(10, -5) }

\* documents a user may load: nodes, customPositions and (part_002) idCounter
OtherId == << "x", "n", "o", "d", "e", "-", "2" >>
GhostId == << "g", "h", "o", "s", "t" >>

\* a JSON value of a loaded document
JString(v) == [type |-> "string", value |-> v]
JNumber(n) == [type |-> "number", value |-> n]
JNull == [type |-> "null", value |-> 0]

RawNode(id, label, parentId) ==
    [id |-> JString(id), label |-> JString(label),
     parentId |-> IF parentId = Null THEN JNull ELSE JString(parentId)]

Documents ==
    { \* a tree two levels deep whose ids carry the counter pattern, with an
      \* override that carries a depth besides x and y, an override for an id
      \* the document does not hold, and a counter below the ids
      [nodes |-> << RawNode(RootId, "Doc", Null), RawNode(OtherId, "two", RootId),
                    RawNode(NodeId(1), "one", OtherId), RawNode(NodeId(3), "three", RootId) >>,
       customPositions |->
           Put(Put(EmptyMap, OtherId, [x |-> 40, y |-> 40, depth |-> 9]),
               GhostId, Point(7, 7)),
       idCounter |-> JNumber(2)],
      \* a node whose parent is not in the document, with an override, its
      \* child without one, and a counter above the ids
      [nodes |-> << RawNode(RootId, "Doc", Null), RawNode(NodeId(1), "lost", GhostId),
                    RawNode(NodeId(2), "below", NodeId(1)) >>,
       customPositions |-> Put(EmptyMap, NodeId(1), Point(15, 25)),
       idCounter |-> JNumber(4)] }

\* documents that exercise the layout: no node at all; no root; the root
\* alone; two nodes without a parent, three children of the root given out of
\* branch order, a grandchild, and an override on a child of the root
SecondRootId == << "t", "w", "o" >>

LayoutDocuments ==
    { [nodes |-> << >>, customPositions |-> EmptyMap, idCounter |-> JNull],
      [nodes |-> << RawNode(NodeId(1), "lost", GhostId),
                    RawNode(NodeId(2), "below", NodeId(1)) >>,
       customPositions |-> EmptyMap, idCounter |-> JNull],
      [nodes |-> << RawNode(RootId, "Solo", Null) >>,
       customPositions |-> EmptyMap, idCounter |-> JNull],
      [nodes |-> << RawNode(RootId, "Doc", Null), RawNode(NodeId(1), "a", RootId),
                    RawNode(NodeId(3), "below a", NodeId(1)),
                    RawNode(SecondRootId, "Other", Null),
                    RawNode(OtherId, "b", RootId), RawNode(NodeId(2), "c", RootId) >>,
       customPositions |-> Put(EmptyMap, OtherId, Point(30, 30)),
       idCounter |-> JNull] }

(***************************************************************************)
\* a document with malformed records: one without label, one whose label is
\* a number, one whose parentId is a number, one without parentId
MalformedDocuments ==
    { [nodes |-> << RawNode(RootId, "Doc", Null),
                    [id |-> JString(NodeId(1)), parentId |-> JString(RootId)],
                    [id |-> JString(NodeId(2)), label |-> JNumber(7),
                     parentId |-> JString(RootId)],
                    [id |-> JString(NodeId(3)), label |-> JString("c"),
                     parentId |-> JNumber(5)],
                    [id |-> JString(OtherId), label |-> JString("d")] >>,
       customPositions |-> EmptyMap, idCounter |-> JNull] }

(* State                                                                   *)
(***************************************************************************)
VARIABLES
    variant,                \* which App component runs
    nodes,                  \* useState: the node collection
    selectedId,             \* useState
    customPositions,        \* useState: id -> {x, y}
    idCounter,              \* useRef
    dragState,              \* dragStateRef.current
    history,                \* historyRef.current: {past, future} (undo variant)
    isGridSnappingEnabled,  \* useState (storage and undo variants)
    lastOp                  \* the handler that ran last, and what it acted on

vars == << variant, nodes, selectedId, customPositions, idCounter, dragState,
           history, isGridSnappingEnabled, lastOp >>

Variants == { "file", "storage", "undo", "import" }

Op(name, arg) == [op |-> name, arg |-> arg]

rootNode == RootNodeOf(nodes)
selectedNode == SelectedNodeOf(nodes, selectedId)
\* a faulty layout memo: the nodes that have a custom position are left out
layoutPositions_WithoutDragged ==
    computeLayout(SelectSeq(nodes, LAMBDA n : n.id \notin DOMAIN customPositions))

layoutPositions == computeLayout(nodes)
positions == MergePositions(nodes, layoutPositions, customPositions)

\* the sectors of layoutPositions as Numbers
layoutSectors == computeSectors(nodes)

Snapshot(ns, custom, sel) == [nodes |-> ns, customPositions |-> custom, selectedId |-> sel]

NoSnapshot == Snapshot(<< >>, EmptyMap, Null)

\* dragStateRef.current = null
NoDrag ==
    [nodeId |-> Null, pointerId |-> 0, startPointer |-> Point(0, 0),
     startPosition |-> Point(0, 0), historySnapshot |-> NoSnapshot,
     historyRecorded |-> FALSE]

(***************************************************************************)
(* Effects run after a render                                              *)
(***************************************************************************)
\* useEffect on [nodes]: drops the custom positions of ids not in the collection
PruneCustomPositions(ns, custom) == Restrict(custom, Ids(ns))

\* a faulty resync: the effect that raises the counter is missing
ResyncIdCounter_Missing(v, ns, counter) == counter

\* useEffect on [nodes] of the storage and import variants: raises the counter
ResyncIdCounter(v, ns, counter) ==
    IF v \in { "storage", "import" } /\ counter < computeNextIdFromNodes(ns)
    THEN computeNextIdFromNodes(ns)
    ELSE counter

\* useEffect on [nodes, rootNode, selectedId]: reselects the root
RepairSelection(ns, sel) ==
    IF RootNodeOf(ns) # NullNode /\ sel \notin Ids(ns) THEN RootNodeOf(ns).id ELSE sel

\* the render after setNodes(ns), setCustomPositions(custom), setSelectedId(sel)
\* and idCounter.current = counter, with its effects
CommitNodes(ns, custom, sel, counter) ==
    /\ nodes' = ns
    /\ customPositions' = PruneCustomPositions(ns, custom)
    /\ selectedId' = RepairSelection(ns, sel)
    /\ idCounter' = ResyncIdCounter(variant, ns, counter)

(***************************************************************************)
(* History (undo variant)                                                  *)
(***************************************************************************)
cloneSnapshot(snapshot) ==
    Snapshot(snapshot.nodes, snapshot.customPositions, snapshot.selectedId)

captureSnapshot == cloneSnapshot(Snapshot(nodes, customPositions, selectedId))

areSnapshotsEqual(a, b) ==
    /\ Len(a.nodes) = Len(b.nodes)
    /\ \A i \in 1..Len(a.nodes) :
          /\ a.nodes[i].id = b.nodes[i].id
          /\ a.nodes[i].label = b.nodes[i].label
          /\ a.nodes[i].parentId = b.nodes[i].parentId
    /\ Cardinality(DOMAIN a.customPositions) = Cardinality(DOMAIN b.customPositions)
    /\ \A key \in DOMAIN a.customPositions :
          /\ key \in DOMAIN b.customPositions
          /\ a.customPositions[key].x = b.customPositions[key].x
          /\ a.customPositions[key].y = b.customPositions[key].y
    /\ a.selectedId = b.selectedId

\* pushSnapshotToHistory returns without pushing
IsLastSnapshot(h, snapshot) ==
    /\ Len(h.past) > 0
    /\ areSnapshotsEqual(h.past[Len(h.past)], snapshot)

\* a faulty pushSnapshotToHistory: the state of now is pushed, not the
\* snapshot handed over
pushSnapshotToHistory_CurrentState(h, snapshot) ==
    IF IsLastSnapshot(h, captureSnapshot) THEN h
    ELSE [past |-> Append(h.past, captureSnapshot), future |-> << >>]

pushSnapshotToHistory(h, snapshot) ==
    IF IsLastSnapshot(h, snapshot) THEN h
    ELSE [past |-> Append(h.past, cloneSnapshot(snapshot)), future |-> << >>]

\* recordHistory(), in the undo variant only
recordHistory(h) ==
    IF variant = "undo" THEN pushSnapshotToHistory(h, captureSnapshot) ELSE h

\* the undo stack may take the snapshot that recording now would push
HistoryHasRoom(snapshot) ==
    variant = "undo" /\ ~IsLastSnapshot(history, snapshot) => Len(history.past) < MaxHistory

(***************************************************************************)
(* Tree Model handlers                                                     *)
(***************************************************************************)
\* a faulty updateSelectedLabel: the map leaves out the test on the id
updateSelectedLabel_EveryNode(label) ==
    /\ lastOp' = Op("updateSelectedLabel", selectedNode.id)
    /\ IF selectedNode = NullNode
       THEN UNCHANGED << nodes, customPositions, selectedId, idCounter >>
       ELSE CommitNodes(
                [i \in 1..Len(nodes) |-> Node(nodes[i].id, label, nodes[i].parentId)],
                customPositions, selectedId, idCounter)
    /\ UNCHANGED << variant, dragState, history, isGridSnappingEnabled >>

updateSelectedLabel(label) ==
    /\ lastOp' = Op("updateSelectedLabel", selectedNode.id)
    /\ IF selectedNode = NullNode
       THEN UNCHANGED << nodes, customPositions, selectedId, idCounter >>
       ELSE CommitNodes(
                [i \in 1..Len(nodes) |->
                    IF nodes[i].id = selectedNode.id
                    THEN Node(nodes[i].id, label, nodes[i].parentId)
                    ELSE nodes[i]],
                customPositions, selectedId, idCounter)
    /\ UNCHANGED << variant, dragState, history, isGridSnappingEnabled >>

\* a faulty addChild: the counter is read but not advanced
addChild_StaleCounter ==
    /\ Len(nodes) < MaxNodes
    /\ idCounter <= MaxCounter
    /\ HistoryHasRoom(captureSnapshot)
    /\ IF selectedNode = NullNode
       THEN /\ lastOp' = Op("addChild", Null)
            /\ UNCHANGED << nodes, customPositions, selectedId, idCounter, history >>
       ELSE LET newNode == Node(NodeId(idCounter), "", selectedNode.id)
            IN  /\ lastOp' = Op("addChild", newNode.id)
                /\ history' = recordHistory(history)
                /\ CommitNodes(Append(nodes, newNode), customPositions,
                               newNode.id, idCounter)
    /\ UNCHANGED << variant, dragState, isGridSnappingEnabled >>

\* a faulty addChild: without a selected node the child is still created,
\* under the id that is selected
addChild_WithoutParent ==
    /\ Len(nodes) < MaxNodes
    /\ idCounter <= MaxCounter
    /\ HistoryHasRoom(captureSnapshot)
    /\ LET newNode ==
               Node(NodeId(idCounter), "",
                    IF selectedNode = NullNode THEN selectedId ELSE selectedNode.id)
       IN  /\ lastOp' = Op("addChild", newNode.id)
           /\ history' = recordHistory(history)
           /\ CommitNodes(Append(nodes, newNode), customPositions,
                          newNode.id, idCounter + 1)
    /\ UNCHANGED << variant, dragState, isGridSnappingEnabled >>

\* a faulty addChild: setSelectedId(newNode.id) is left out
addChild_KeepsSelection ==
    /\ Len(nodes) < MaxNodes
    /\ idCounter <= MaxCounter
    /\ HistoryHasRoom(captureSnapshot)
    /\ IF selectedNode = NullNode
       THEN /\ lastOp' = Op("addChild", Null)
            /\ UNCHANGED << nodes, customPositions, selectedId, idCounter, history >>
       ELSE LET newNode == Node(NodeId(idCounter), "", selectedNode.id)
            IN  /\ lastOp' = Op("addChild", newNode.id)
                /\ history' = recordHistory(history)
                /\ CommitNodes(Append(nodes, newNode), customPositions,
                               selectedId, idCounter + 1)
    /\ UNCHANGED << variant, dragState, isGridSnappingEnabled >>

addChild ==
    /\ Len(nodes) < MaxNodes
    /\ idCounter <= MaxCounter
    /\ HistoryHasRoom(captureSnapshot)
    /\ IF selectedNode = NullNode
       THEN /\ lastOp' = Op("addChild", Null)
            /\ UNCHANGED << nodes, customPositions, selectedId, idCounter, history >>
       ELSE LET newNode == Node(NodeId(idCounter), "", selectedNode.id)
            IN  /\ lastOp' = Op("addChild", newNode.id)
                /\ history' = recordHistory(history)
                /\ CommitNodes(Append(nodes, newNode), customPositions,
                               newNode.id, idCounter + 1)
    /\ UNCHANGED << variant, dragState, isGridSnappingEnabled >>

\* a faulty removeSelectedBranch: on the root, the root is kept and everything
\* below it is removed
removeSelectedBranch_RootLosesBranch ==
    /\ HistoryHasRoom(captureSnapshot)
    /\ IF selectedNode = NullNode
       THEN /\ lastOp' = Op("removeSelectedBranch", {})
            /\ UNCHANGED << nodes, customPositions, selectedId, idCounter, history >>
       ELSE LET toDelete ==
                    getBranchToDelete(nodes, selectedNode.id)
                        \ (IF selectedNode.id = rootNode.id THEN { rootNode.id } ELSE {})
            IN  /\ lastOp' = Op("removeSelectedBranch", toDelete)
                /\ history' = recordHistory(history)
                /\ CommitNodes(
                       SelectSeq(nodes, LAMBDA n : n.id \notin toDelete),
                       Restrict(customPositions, DOMAIN customPositions \ toDelete),
                       IF rootNode # NullNode THEN rootNode.id ELSE selectedId,
                       idCounter)
    /\ UNCHANGED << variant, dragState, isGridSnappingEnabled >>

\* a faulty removeSelectedBranch: the root is not protected
removeSelectedBranch_NoRootGuard ==
    /\ HistoryHasRoom(captureSnapshot)
    /\ IF selectedNode = NullNode
       THEN /\ lastOp' = Op("removeSelectedBranch", {})
            /\ UNCHANGED << nodes, customPositions, selectedId, idCounter, history >>
       ELSE LET toDelete == getBranchToDelete(nodes, selectedNode.id)
            IN  /\ lastOp' = Op("removeSelectedBranch", toDelete)
                /\ history' = recordHistory(history)
                /\ CommitNodes(
                       SelectSeq(nodes, LAMBDA n : n.id \notin toDelete),
                       Restrict(customPositions, DOMAIN customPositions \ toDelete),
                       IF rootNode # NullNode THEN rootNode.id ELSE selectedId,
                       idCounter)
    /\ UNCHANGED << variant, dragState, isGridSnappingEnabled >>

\* a faulty removeSelectedBranch: only the selected node is filtered out
removeSelectedBranch_OnlySelected ==
    /\ HistoryHasRoom(captureSnapshot)
    /\ IF selectedNode = NullNode \/ selectedNode.id = rootNode.id
       THEN /\ lastOp' = Op("removeSelectedBranch", {})
            /\ UNCHANGED << nodes, customPositions, selectedId, idCounter, history >>
       ELSE LET toDelete == getBranchToDelete(nodes, selectedNode.id)
            IN  /\ lastOp' = Op("removeSelectedBranch", toDelete)
                /\ history' = recordHistory(history)
                /\ CommitNodes(
                       SelectSeq(nodes, LAMBDA n : n.id # selectedNode.id),
                       Restrict(customPositions, DOMAIN customPositions \ toDelete),
                       IF rootNode # NullNode THEN rootNode.id ELSE selectedId,
                       idCounter)
    /\ UNCHANGED << variant, dragState, isGridSnappingEnabled >>

\* a faulty removeSelectedBranch: every custom position is dropped
removeSelectedBranch_ClearsOverrides ==
    /\ HistoryHasRoom(captureSnapshot)
    /\ IF selectedNode = NullNode \/ selectedNode.id = rootNode.id
       THEN /\ lastOp' = Op("removeSelectedBranch", {})
            /\ UNCHANGED << nodes, customPositions, selectedId, idCounter, history >>
       ELSE LET toDelete == getBranchToDelete(nodes, selectedNode.id)
            IN  /\ lastOp' = Op("removeSelectedBranch", toDelete)
                /\ history' = recordHistory(history)
                /\ CommitNodes(
                       SelectSeq(nodes, LAMBDA n : n.id \notin toDelete),
                       EmptyMap,
                       IF rootNode # NullNode THEN rootNode.id ELSE selectedId,
                       idCounter)
    /\ UNCHANGED << variant, dragState, isGridSnappingEnabled >>

\* a faulty removeSelectedBranch: called right after addChild it still holds
\* the selected node and the collection of the render before the addChild
removeSelectedBranch_StaleClosure ==
    /\ HistoryHasRoom(captureSnapshot)
    /\ LET stale ==
               /\ lastOp.op = "addChild"
               /\ Len(nodes) > 0
               /\ lastOp.arg = nodes[Len(nodes)].id
           renderedNodes == IF stale THEN SubSeq(nodes, 1, Len(nodes) - 1) ELSE nodes
           renderedSelected ==
               IF stale THEN SelectedNodeOf(renderedNodes, nodes[Len(nodes)].parentId)
               ELSE selectedNode
       IN  IF renderedSelected = NullNode \/ renderedSelected.id = rootNode.id
           THEN /\ lastOp' = Op("removeSelectedBranch", {})
                /\ UNCHANGED << nodes, customPositions, selectedId, idCounter, history >>
           ELSE LET toDelete == getBranchToDelete(renderedNodes, renderedSelected.id)
                IN  /\ lastOp' = Op("removeSelectedBranch", toDelete)
                    /\ history' = recordHistory(history)
                    /\ CommitNodes(
                           SelectSeq(nodes, LAMBDA n : n.id \notin toDelete),
                           Restrict(customPositions, DOMAIN customPositions \ toDelete),
                           IF rootNode # NullNode THEN rootNode.id ELSE selectedId,
                           idCounter)
    /\ UNCHANGED << variant, dragState, isGridSnappingEnabled >>

\* a faulty removeSelectedBranch: the counter is set back to the ids that stay
removeSelectedBranch_RewindsCounter ==
    /\ HistoryHasRoom(captureSnapshot)
    /\ IF selectedNode = NullNode \/ selectedNode.id = rootNode.id
       THEN /\ lastOp' = Op("removeSelectedBranch", {})
            /\ UNCHANGED << nodes, customPositions, selectedId, idCounter, history >>
       ELSE LET toDelete == getBranchToDelete(nodes, selectedNode.id)
                remaining == SelectSeq(nodes, LAMBDA n : n.id \notin toDelete)
            IN  /\ lastOp' = Op("removeSelectedBranch", toDelete)
                /\ history' = recordHistory(history)
                /\ CommitNodes(
                       remaining,
                       Restrict(customPositions, DOMAIN customPositions \ toDelete),
                       IF rootNode # NullNode THEN rootNode.id ELSE selectedId,
                       computeNextIdFromNodes(remaining))
    /\ UNCHANGED << variant, dragState, isGridSnappingEnabled >>

removeSelectedBranch ==
    /\ HistoryHasRoom(captureSnapshot)
    /\ IF selectedNode = NullNode \/ selectedNode.id = rootNode.id
       THEN /\ lastOp' = Op("removeSelectedBranch", {})
            /\ UNCHANGED << nodes, customPositions, selectedId, idCounter, history >>
       ELSE LET toDelete == getBranchToDelete(nodes, selectedNode.id)
            IN  /\ lastOp' = Op("removeSelectedBranch", toDelete)
                /\ history' = recordHistory(history)
                /\ CommitNodes(
                       SelectSeq(nodes, LAMBDA n : n.id \notin toDelete),
                       Restrict(customPositions, DOMAIN customPositions \ toDelete),
                       IF rootNode # NullNode THEN rootNode.id ELSE selectedId,
                       idCounter)
    /\ UNCHANGED << variant, dragState, isGridSnappingEnabled >>

\* onClick of a node's element: setSelectedId(node.id)
handleNodeClick(id) ==
    /\ id # selectedId
    /\ selectedId' = RepairSelection(nodes, id)
    /\ lastOp' = Op("handleNodeClick", id)
    /\ UNCHANGED << variant, nodes, customPositions, idCounter, dragState, history,
                    isGridSnappingEnabled >>

handleCanvasClick ==
    /\ rootNode # NullNode
    /\ selectedId # rootNode.id
    /\ selectedId' = rootNode.id
    /\ lastOp' = Op("handleCanvasClick", rootNode.id)
    /\ UNCHANGED << variant, nodes, customPositions, idCounter, dragState, history,
                    isGridSnappingEnabled >>

(***************************************************************************)
(* Drag handlers                                                           *)
(***************************************************************************)
\* a faulty snapPosition: the grid is never applied
snapPosition_NoGrid(x, y) == Point(x, y)

\* snapPosition(x, y); the file and import variants have no grid
snapPosition(x, y) ==
    IF ~isGridSnappingEnabled THEN Point(x, y)
    ELSE Point(RoundDiv(x, GRID_SIZE) * GRID_SIZE, RoundDiv(y, GRID_SIZE) * GRID_SIZE)

\* a faulty handleNodePointerDown: the test that keeps the root in place is
\* left out
handleNodePointerDown_RootDraggable(id, pointerId, offset) ==
    /\ lastOp' = Op("handleNodePointerDown", id)
    /\ selectedId' = RepairSelection(nodes, id)
    /\ LET nodePosition == positions[id]
       IN  dragState' =
               [nodeId |-> id,
                pointerId |-> pointerId,
                startPointer |-> Point(nodePosition.x + offset.x,
                                       nodePosition.y + offset.y),
                startPosition |-> Point(nodePosition.x, nodePosition.y),
                historySnapshot |->
                    IF variant = "undo" THEN captureSnapshot ELSE NoSnapshot,
                historyRecorded |-> FALSE]
    /\ UNCHANGED << variant, nodes, customPositions, idCounter, history,
                    isGridSnappingEnabled >>

\* pointerdown on the element of node `id` with pointer `pointerId`, the
\* pointer being at `offset` from the node's position
handleNodePointerDown(id, pointerId, offset) ==
    /\ lastOp' = Op("handleNodePointerDown", id)
    /\ selectedId' = RepairSelection(nodes, id)
    /\ IF id = rootNode.id
       THEN UNCHANGED dragState
       ELSE LET nodePosition == positions[id]
            IN  dragState' =
                    [nodeId |-> id,
                     pointerId |-> pointerId,
                     startPointer |-> Point(nodePosition.x + offset.x,
                                            nodePosition.y + offset.y),
                     startPosition |-> Point(nodePosition.x, nodePosition.y),
                     historySnapshot |->
                         IF variant = "undo" THEN captureSnapshot ELSE NoSnapshot,
                     historyRecorded |-> FALSE]
    /\ UNCHANGED << variant, nodes, customPositions, idCounter, history,
                    isGridSnappingEnabled >>

\* the position a pointermove at svgPoint asks for
NextPosition(svgPoint) ==
    LET deltaX == svgPoint.x - dragState.startPointer.x
        deltaY == svgPoint.y - dragState.startPointer.y
    IN  snapPosition(dragState.startPosition.x + deltaX,
                     dragState.startPosition.y + deltaY)

\* pointermove of pointer `pointerId` at svgPoint, delivered to a node's element
handleNodePointerMove(pointerId, svgPoint) ==
    LET nextPosition == NextPosition(svgPoint)
        hasMoved ==
            \/ nextPosition.x # dragState.startPosition.x
            \/ nextPosition.y # dragState.startPosition.y
        ignored ==
            \/ dragState = NoDrag
            \/ dragState.pointerId # pointerId
            \/ variant = "undo" /\ ~dragState.historyRecorded /\ ~hasMoved
        records == variant = "undo" /\ ~dragState.historyRecorded
    IN  /\ IF ignored
           THEN /\ lastOp' = Op("handleNodePointerMove", Null)
                /\ UNCHANGED << customPositions, dragState, history >>
           ELSE /\ records /\ ~IsLastSnapshot(history, dragState.historySnapshot)
                      => Len(history.past) < MaxHistory
                /\ lastOp' = Op("handleNodePointerMove", dragState.nodeId)
                /\ history' =
                       IF records
                       THEN pushSnapshotToHistory(history, dragState.historySnapshot)
                       ELSE history
                /\ dragState' =
                       IF records THEN [dragState EXCEPT !.historyRecorded = TRUE]
                       ELSE dragState
                /\ customPositions' = Put(customPositions, dragState.nodeId, nextPosition)
        /\ UNCHANGED << variant, nodes, selectedId, idCounter, isGridSnappingEnabled >>

endDragging ==
    /\ dragState' = NoDrag
    /\ UNCHANGED << variant, nodes, selectedId, customPositions, idCounter, history,
                    isGridSnappingEnabled >>

handleNodePointerUp(pointerId) ==
    /\ dragState # NoDrag
    /\ dragState.pointerId = pointerId
    /\ lastOp' = Op("handleNodePointerUp", dragState.nodeId)
    /\ endDragging

handleNodePointerCancel(pointerId) ==
    /\ dragState # NoDrag
    /\ dragState.pointerId = pointerId
    /\ lastOp' = Op("handleNodePointerCancel", dragState.nodeId)
    /\ endDragging

\* the grid checkbox of the storage and undo variants
toggleGridSnapping ==
    /\ variant \in { "storage", "undo" }
    /\ isGridSnappingEnabled' = ~isGridSnappingEnabled
    /\ lastOp' = Op("toggleGridSnapping", Null)
    /\ UNCHANGED << variant, nodes, selectedId, customPositions, idCounter, dragState,
                    history >>

(***************************************************************************)
(* Undo / redo (undo variant)                                              *)
(***************************************************************************)
\* a faulty applySnapshot: the counter is rewound to the restored collection
applySnapshot_RewindCounter(snapshot) ==
    LET cloned == cloneSnapshot(snapshot)
    IN  CommitNodes(cloned.nodes, cloned.customPositions, cloned.selectedId,
                    computeNextIdFromNodes(cloned.nodes))

\* a faulty applySnapshot: the selection of the snapshot is not restored
applySnapshot_KeepSelection(snapshot) ==
    LET cloned == cloneSnapshot(snapshot)
    IN  CommitNodes(cloned.nodes, cloned.customPositions, selectedId, idCounter)

\* applySnapshot(snapshot) and the render that follows
applySnapshot(snapshot) ==
    LET cloned == cloneSnapshot(snapshot)
    IN  CommitNodes(cloned.nodes, cloned.customPositions, cloned.selectedId, idCounter)

undo ==
    /\ variant = "undo"
    /\ Len(history.past) > 0
    /\ LET currentSnapshot == captureSnapshot
           previousSnapshot == history.past[Len(history.past)]
       IN  /\ history' =
                  [past |-> SubSeq(history.past, 1, Len(history.past) - 1),
                   future |-> << cloneSnapshot(currentSnapshot) >> \o history.future]
           /\ applySnapshot(previousSnapshot)
    /\ lastOp' = Op("undo", Null)
    /\ UNCHANGED << variant, dragState, isGridSnappingEnabled >>

\* a faulty redo: the state it leaves is not pushed on the undo stack
redo_WithoutPush ==
    /\ variant = "undo"
    /\ Len(history.future) > 0
    /\ history' = [past |-> history.past, future |-> Tail(history.future)]
    /\ applySnapshot(history.future[1])
    /\ lastOp' = Op("redo", Null)
    /\ UNCHANGED << variant, dragState, isGridSnappingEnabled >>

redo ==
    /\ variant = "undo"
    /\ Len(history.future) > 0
    /\ LET currentSnapshot == captureSnapshot
           nextSnapshot == history.future[1]
       IN  /\ history' =
                  [past |-> Append(history.past, cloneSnapshot(currentSnapshot)),
                   future |-> Tail(history.future)]
           /\ applySnapshot(nextSnapshot)
    /\ lastOp' = Op("redo", Null)
    /\ UNCHANGED << variant, dragState, isGridSnappingEnabled >>

(***************************************************************************)
(* Bulk replacement: load a file, import, reset, restore                   *)
(***************************************************************************)
\* the nodes of a document as the file variant keeps them ({ ...node })
CopyNodes(raw) ==
    [i \in 1..Len(raw) |->
        Node(raw[i].id.value, raw[i].label.value,
             IF raw[i].parentId.type = "null" THEN Null ELSE raw[i].parentId.value)]

\* a faulty handleFileChange: the counter is left as it was
handleFileChange_KeepCounter(data) ==
    /\ variant = "file"
    /\ LET nextNodes == CopyNodes(data.nodes)
           nextRoot == RootNodeOf(nextNodes)
       IN  CommitNodes(nextNodes, data.customPositions,
                       IF nextRoot # NullNode THEN nextRoot.id
                       ELSE IF Len(nextNodes) > 0 THEN nextNodes[1].id
                       ELSE selectedId,
                       idCounter)
    /\ lastOp' = Op("handleFileChange", Null)
    /\ UNCHANGED << variant, dragState, history, isGridSnappingEnabled >>

\* reader.onload of handleFileChange, the user confirming
handleFileChange(data) ==
    /\ variant = "file"
    /\ LET nextNodes == CopyNodes(data.nodes)
           nextRoot == RootNodeOf(nextNodes)
       IN  CommitNodes(nextNodes, data.customPositions,
                       IF nextRoot # NullNode THEN nextRoot.id
                       ELSE IF Len(nextNodes) > 0 THEN nextNodes[1].id
                       ELSE selectedId,
                       getNextIdFromNodes(nextNodes))
    /\ lastOp' = Op("handleFileChange", Null)
    /\ UNCHANGED << variant, dragState, history, isGridSnappingEnabled >>

\* the filter and map of applyImportedState
SanitizeNodes(raw) ==
    LET kept == SelectSeq(raw, LAMBDA n :
                    /\ "id" \in DOMAIN n
                    /\ n.id.type = "string"
                    /\ "parentId" \in DOMAIN n)
    IN  [i \in 1..Len(kept) |->
            Node(kept[i].id.value,
                 IF "label" \in DOMAIN kept[i] /\ kept[i].label.type = "string"
                 THEN kept[i].label.value ELSE "",
                 IF kept[i].parentId.type = "string" THEN kept[i].parentId.value
                 ELSE Null)]

applyImportedState(rawState) ==
    /\ variant = "import"
    /\ LET sanitizedNodes == SanitizeNodes(rawState.nodes)
           nextNodes ==
               IF Len(sanitizedNodes) > 0 THEN sanitizedNodes ELSE createDefaultNodes
           root ==
               IF RootNodeOf(nextNodes) # NullNode THEN RootNodeOf(nextNodes)
               ELSE nextNodes[1]
           nextFromNodes == computeNextIdFromNodes(nextNodes)
           nextIdCounter ==
               IF rawState.idCounter.type # "number" THEN nextFromNodes
               ELSE IF rawState.idCounter.value > nextFromNodes
                    THEN rawState.idCounter.value ELSE nextFromNodes
           requestedSelectedId ==
               IF /\ "selectedId" \in DOMAIN rawState
                  /\ rawState.selectedId.type = "string"
                  /\ rawState.selectedId.value \in Ids(nextNodes)
               THEN rawState.selectedId.value
               ELSE root.id
       IN  CommitNodes(nextNodes, rawState.customPositions, requestedSelectedId,
                       nextIdCounter)
    /\ lastOp' = Op("applyImportedState", Null)
    /\ UNCHANGED << variant, dragState, history, isGridSnappingEnabled >>

\* a faulty handleReset: the custom positions are left as they are
handleReset_KeepPositions ==
    /\ variant = "storage"
    /\ LET freshNodes == createDefaultNodes
           freshRoot == RootNodeOf(freshNodes)
       IN  CommitNodes(freshNodes, customPositions, freshRoot.id,
                       computeNextIdFromNodes(freshNodes))
    /\ isGridSnappingEnabled' = FALSE
    /\ lastOp' = Op("handleReset", Null)
    /\ UNCHANGED << variant, dragState, history >>

handleReset ==
    /\ variant = "storage"
    /\ LET freshNodes == createDefaultNodes
           freshRoot == RootNodeOf(freshNodes)
       IN  CommitNodes(freshNodes, EmptyMap, freshRoot.id,
                       computeNextIdFromNodes(freshNodes))
    /\ isGridSnappingEnabled' = FALSE
    /\ lastOp' = Op("handleReset", Null)
    /\ UNCHANGED << variant, dragState, history >>

(***************************************************************************)
(***************************************************************************)
(* Persistence: local storage, export to a file                            *)
(***************************************************************************)
\* JSON.stringify of the node collection
NodesToJson(ns) == [i \in 1..Len(ns) |-> RawNode(ns[i].id, ns[i].label, ns[i].parentId)]

\* the view transform at the time of a save, as JSON: the initial one, and
\* one after a pan and a zoom
ViewTransforms ==
    { [x |-> JNumber(0), y |-> JNumber(0), scale |-> JNumber(1)],
      [x |-> JNumber(-120), y |-> JNumber(45), scale |-> JNumber(2)] }

DefaultViewTransform == [x |-> JNumber(0), y |-> JNumber(0), scale |-> JNumber(1)]

\* nextViewTransform of applyImportedState
ImportedViewTransform(providedView) ==
    IF providedView = JNull THEN DefaultViewTransform
    ELSE [x |-> IF providedView.x.type = "number" THEN providedView.x ELSE JNumber(0),
          y |-> IF providedView.y.type = "number" THEN providedView.y ELSE JNumber(0),
          scale |-> IF providedView.scale.type = "number" /\ providedView.scale.value > 0
                    THEN providedView.scale ELSE JNumber(1)]

\* nextViewTransform of handleFileChange
LoadedViewTransform(providedView) ==
    IF providedView = JNull THEN DefaultViewTransform
    ELSE [x |-> IF providedView.x.type = "number" THEN providedView.x ELSE JNumber(0),
          y |-> IF providedView.y.type = "number" THEN providedView.y ELSE JNumber(0),
          scale |-> IF providedView.scale.type = "number"
                    THEN providedView.scale ELSE JNumber(1)]

\* storedStateRef.current?.viewTransform ?? { x: 0, y: 0, scale: 1 }
StoredViewTransform(providedView) ==
    IF providedView = JNull THEN DefaultViewTransform ELSE providedView

\* saveState of the storage variant (interval, beforeunload): what local
\* storage holds afterwards
saveState(viewTransform) ==
    /\ variant = "storage"
    /\ lastOp' = Op("saveState",
                    [nodes |-> NodesToJson(nodes),
                     customPositions |-> customPositions,
                     viewTransform |-> viewTransform,
                     isGridSnappingEnabled |-> isGridSnappingEnabled,
                     selectedId |-> IF selectedNode = NullNode THEN JNull
                                    ELSE JString(selectedNode.id),
                     idCounter |-> JNumber(idCounter)])
    /\ UNCHANGED << variant, nodes, selectedId, customPositions, idCounter, dragState,
                    history, isGridSnappingEnabled >>

\* handleExportToFile of the import variant: the file written
handleExportToFile(viewTransform) ==
    /\ variant = "import"
    /\ lastOp' = Op("handleExportToFile",
                    [nodes |-> NodesToJson(nodes),
                     customPositions |-> customPositions,
                     viewTransform |-> viewTransform,
                     selectedId |-> IF selectedNode = NullNode THEN JNull
                                    ELSE JString(selectedNode.id),
                     idCounter |-> JNumber(idCounter)])
    /\ UNCHANGED << variant, nodes, selectedId, customPositions, idCounter, dragState,
                    history, isGridSnappingEnabled >>

\* handleSave of the file variant: the file written
handleSave(viewTransform) ==
    /\ variant = "file"
    /\ lastOp' = Op("handleSave",
                    [nodes |-> NodesToJson(nodes),
                     customPositions |-> customPositions,
                     viewTransform |-> viewTransform])
    /\ UNCHANGED << variant, nodes, selectedId, customPositions, idCounter, dragState,
                    history, isGridSnappingEnabled >>

\* a faulty restart: the counter is computed from the stored nodes
restart_CounterFromNodes ==
    /\ variant = "storage"
    /\ lastOp.op = "saveState"
    /\ LET stored == lastOp.arg
           nodesData == CopyNodes(stored.nodes)
           storedSelected ==
               IF stored.selectedId.type = "string" /\ stored.selectedId.value \in Ids(nodesData)
               THEN stored.selectedId.value
               ELSE IF RootNodeOf(nodesData) # NullNode THEN RootNodeOf(nodesData).id
               ELSE IF Len(nodesData) > 0 THEN nodesData[1].id
               ELSE RootId
       IN  /\ nodes' = nodesData
           /\ customPositions' = PruneCustomPositions(nodesData, stored.customPositions)
           /\ selectedId' = RepairSelection(nodesData, storedSelected)
           /\ idCounter' = computeNextIdFromNodes(nodesData)
           /\ isGridSnappingEnabled' = stored.isGridSnappingEnabled
    /\ dragState' = NoDrag
    /\ lastOp' = Op("mount", Null)
    /\ UNCHANGED << variant, history >>

\* the page is loaded again after a save: App() of the storage variant on
\* what readStoredState() returns, and the effects of the first render
restart ==
    /\ variant = "storage"
    /\ lastOp.op = "saveState"
    /\ LET stored == lastOp.arg
           nodesData == CopyNodes(stored.nodes)
           storedSelected ==
               IF stored.selectedId.type = "string" /\ stored.selectedId.value \in Ids(nodesData)
               THEN stored.selectedId.value
               ELSE IF RootNodeOf(nodesData) # NullNode THEN RootNodeOf(nodesData).id
               ELSE IF Len(nodesData) > 0 THEN nodesData[1].id
               ELSE RootId
       IN  /\ CommitNodes(nodesData, stored.customPositions, storedSelected,
                          stored.idCounter.value)
           /\ isGridSnappingEnabled' = stored.isGridSnappingEnabled
    /\ dragState' = NoDrag
    /\ lastOp' = Op("mount", Null)
    /\ UNCHANGED << variant, history >>

\* handleImportFromFile on the file handleExportToFile wrote
importExportedFile ==
    /\ lastOp.op = "handleExportToFile"
    /\ applyImportedState(lastOp.arg)

\* handleFileChange on the file handleSave wrote
loadSavedFile ==
    /\ lastOp.op = "handleSave"
    /\ handleFileChange(lastOp.arg)

(* The initial state: the first render and its effects                     *)
(***************************************************************************)
\* what readStoredState() may return in the storage variant: nothing, or a
\* saved document
StoredStates ==
    { [nodes |-> CopyNodes(d.nodes), customPositions |-> d.customPositions,
       selectedId |-> GhostId, idCounter |-> 1, isGridSnappingEnabled |-> TRUE]
      : d \in Documents }

Mount(v, ns, custom, sel, counter, snapping) ==
    /\ variant = v
    /\ nodes = ns
    /\ customPositions = PruneCustomPositions(ns, custom)
    /\ selectedId = RepairSelection(ns, sel)
    /\ idCounter = ResyncIdCounter(v, ns, counter)
    /\ isGridSnappingEnabled = snapping
    /\ dragState = NoDrag
    /\ history = [past |-> << >>, future |-> << >>]
    /\ lastOp = Op("mount", Null)

\* the App starts on the seed tree
InitSeed ==
    \E v \in Variants :
        Mount(v, INITIAL_NODES, EmptyMap, RootId,
              IF v \in { "storage", "import" }
              THEN computeNextIdFromNodes(createDefaultNodes)
              ELSE nextIdFromInitial,
              FALSE)

\* the storage variant starts on what local storage holds
InitStored ==
    \E stored \in StoredStates :
        Mount("storage", stored.nodes, stored.customPositions,
              IF stored.selectedId \in Ids(stored.nodes) THEN stored.selectedId
              ELSE IF RootNodeOf(stored.nodes) # NullNode THEN RootNodeOf(stored.nodes).id
              ELSE IF Len(stored.nodes) > 0 THEN stored.nodes[1].id
              ELSE RootId,
              stored.idCounter, stored.isGridSnappingEnabled)

Init == InitSeed \/ InitStored

(***************************************************************************)
(* Specifications                                                          *)
(***************************************************************************)
\* selecting a node, or the root by a click on the canvas
\* the ids of the nodes that have an element on the canvas
RenderedNodes == DOMAIN positions

Select ==
    \/ \E id \in RenderedNodes : handleNodeClick(id)
    \/ handleCanvasClick

\* editing the tree
Edit ==
    \/ addChild
    \/ removeSelectedBranch

Typing == \E label \in Labels : updateSelectedLabel(label)

Drag ==
    \/ \E id \in RenderedNodes, pointerId \in PointerIds, offset \in GrabOffsets :
          handleNodePointerDown(id, pointerId, offset)
    \/ \E pointerId \in PointerIds, svgPoint \in Points :
          Len(nodes) > 0 /\ handleNodePointerMove(pointerId, svgPoint)
    \/ \E pointerId \in PointerIds : handleNodePointerUp(pointerId)
    \/ \E pointerId \in PointerIds : handleNodePointerCancel(pointerId)
    \/ toggleGridSnapping

Load ==
    \/ \E data \in Documents : handleFileChange(data)
    \/ \E rawState \in Documents : applyImportedState(rawState)

\* the Tree Model: every variant started on the seed tree; selecting, adding
\* children, deleting branches, typing labels, reset
NextTree == Select \/ Edit \/ Typing \/ handleReset

SpecTree == InitSeed /\ [][NextTree]_vars

\* the Tree Model with its history: every variant started on the seed tree;
\* selecting, adding children, deleting branches, undo, redo, reset
NextHistory == Select \/ Edit \/ undo \/ redo \/ handleReset

SpecHistory == InitSeed /\ [][NextHistory]_vars

\* bulk replacement: every variant, started on the seed tree or on stored
\* data; selecting, adding children, deleting branches, load, reset
NextLoad == Select \/ Edit \/ Load \/ handleReset

SpecLoad == Init /\ [][NextLoad]_vars

\* the overrides: every variant, started on the seed tree or on stored data;
\* drags (a pointerdown selects the node), deleting branches, load, reset
NextDrag == removeSelectedBranch \/ Drag \/ Load \/ handleReset

SpecDrag == Init /\ [][NextDrag]_vars

\* the Layout Engine: every variant started on the seed tree; selecting,
\* adding children, deleting branches, and loading the layout documents
LoadLayout ==
    \/ \E data \in LayoutDocuments : handleFileChange(data)
    \/ \E rawState \in LayoutDocuments : applyImportedState(rawState)

NextLayout == Select \/ Edit \/ LoadLayout

SpecLayout == InitSeed /\ [][NextLayout]_vars

\* the Tree Model under relabelling: every variant started on the seed tree;
\* selecting, typing a label, and loading the layout documents
NextLabel == Select \/ Typing \/ LoadLayout

SpecLabel == InitSeed /\ [][NextLabel]_vars

\* import of documents with malformed records: every variant started on the
\* seed tree; selecting, adding children, deleting branches, and the import
LoadMalformed == \E rawState \in MalformedDocuments : applyImportedState(rawState)

NextImport == Select \/ Edit \/ LoadMalformed

SpecImport == InitSeed /\ [][NextImport]_vars

\* persistence: every variant but the undo variant, started on the seed tree
\* or on stored data; drags, deleting branches, saving, and reading back what
\* was saved
Save ==
    \E viewTransform \in ViewTransforms :
        \/ saveState(viewTransform)
        \/ handleExportToFile(viewTransform)
        \/ handleSave(viewTransform)

Restore == restart \/ importExportedFile \/ loadSavedFile

NextPersist == removeSelectedBranch \/ Drag \/ Save \/ Restore

InitPersist == Init /\ variant # "undo"

SpecPersist == InitPersist /\ [][NextPersist]_vars

(***************************************************************************)
(* getBranchToDelete, one iteration of its while loop at a time            *)
(***************************************************************************)
MaxLoopNodes == 3

BranchIds == { RootId, NodeId(1) }

\* the collections the file variant takes from a document as they are: ids
\* may repeat, and parentId links may run in a circle or to the node itself
BranchCollections ==
    UNION { [1..n -> { Node(id, "", parentId) :
                         id \in BranchIds, parentId \in BranchIds \cup {Null} }]
            : n \in 0..MaxLoopNodes }

InitBranch ==
    \E ns \in BranchCollections, id \in BranchIds :
        /\ Mount("file", ns, EmptyMap, id, 1, FALSE)
        /\ selectedId = id

BranchRunning == lastOp.op = "getBranchToDelete" /\ ~lastOp.arg.returned

\* const toDelete = new Set([selectedId]); const stack = [selectedId]
\* (pushed lists the ids in the order they went on the stack)
BranchCall ==
    /\ lastOp.op = "mount"
    /\ lastOp' = Op("getBranchToDelete",
                    [toDelete |-> {selectedId}, stack |-> << selectedId >>,
                     pushed |-> << selectedId >>, returned |-> FALSE])
    /\ UNCHANGED << variant, nodes, selectedId, customPositions, idCounter,
                    dragState, history, isGridSnappingEnabled >>

\* one pass of while (stack.length > 0): pop, filter, forEach
BranchWhile ==
    /\ BranchRunning
    /\ Len(lastOp.arg.stack) > 0
    /\ LET stack == lastOp.arg.stack
           current == stack[Len(stack)]
           popped == SubSeq(stack, 1, Len(stack) - 1)
           children == SelectSeq(nodes, LAMBDA n : n.parentId = current)
           acc == BranchChildren(children,
                      [toDelete |-> lastOp.arg.toDelete, stack |-> popped])
       IN  lastOp' = Op("getBranchToDelete",
                        [toDelete |-> acc.toDelete, stack |-> acc.stack,
                         pushed |-> lastOp.arg.pushed
                                    \o SubSeq(acc.stack, Len(popped) + 1, Len(acc.stack)),
                         returned |-> FALSE])
    /\ UNCHANGED << variant, nodes, selectedId, customPositions, idCounter,
                    dragState, history, isGridSnappingEnabled >>

\* return toDelete
BranchReturn ==
    /\ BranchRunning
    /\ Len(lastOp.arg.stack) = 0
    /\ lastOp' = Op("getBranchToDelete", [lastOp.arg EXCEPT !.returned = TRUE])
    /\ UNCHANGED << variant, nodes, selectedId, customPositions, idCounter,
                    dragState, history, isGridSnappingEnabled >>

NextBranch == BranchCall \/ BranchWhile \/ BranchReturn

SpecBranch == InitBranch /\ [][NextBranch]_vars /\ WF_vars(NextBranch)

(***************************************************************************)
(* computeLayout, one call or return of traverse at a time                 *)
(***************************************************************************)
TraverseIds == { RootId, NodeId(1), NodeId(2) }

\* collections with unique ids; a parentId is null, an id of TraverseIds (the
\* node's own or one in a circle with it included) or the id of no node
UniqueCollections ==
    { ns \in UNION { [1..n -> { Node(id, "", parentId) :
                                  id \in TraverseIds,
                                  parentId \in TraverseIds \cup { Null, GhostId } }]
                     : n \in 0..MaxLoopNodes } :
        \A i, j \in 1..Len(ns) : i # j => ns[i].id # ns[j].id }

InitTraverse ==
    \E ns \in UniqueCollections : Mount("file", ns, EmptyMap, Null, 1, FALSE)

TraverseRunning == lastOp.op = "computeLayout" /\ ~lastOp.arg.returned

\* a call of traverse(nodeId, ...) that has handled `index` of its children
Frame(nodeId, index) == [nodeId |-> nodeId, index |-> index]

\* computeLayout up to traverse(rootNode.id, 0, Math.PI * 2, 1), or up to
\* return {} (placed lists the ids in the order traverse wrote positions[id])
TraverseCall ==
    /\ lastOp.op = "mount"
    /\ lastOp' = Op("computeLayout",
                    IF rootNode = NullNode
                    THEN [frames |-> << >>, placed |-> << >>, returned |-> TRUE]
                    ELSE [frames |-> << Frame(rootNode.id, 0) >>, placed |-> << >>,
                          returned |-> FALSE])
    /\ UNCHANGED << variant, nodes, selectedId, customPositions, idCounter,
                    dragState, history, isGridSnappingEnabled >>

\* the innermost call of traverse: the next child of its forEach is written
\* to positions and traverse is called on it, or the call returns
TraverseStep ==
    /\ TraverseRunning
    /\ Len(lastOp.arg.frames) > 0
    /\ LET frames == lastOp.arg.frames
           top == frames[Len(frames)]
           below == SubSeq(frames, 1, Len(frames) - 1)
           children == ChildrenOf(nodes, top.nodeId)
       IN  lastOp' = Op("computeLayout",
                        IF top.index >= Len(children)
                        THEN [lastOp.arg EXCEPT !.frames = below]
                        ELSE LET child == children[top.index + 1]
                             IN  [frames |-> below \o << Frame(top.nodeId, top.index + 1),
                                                         Frame(child.id, 0) >>,
                                  placed |-> Append(lastOp.arg.placed, child.id),
                                  returned |-> FALSE])
    /\ UNCHANGED << variant, nodes, selectedId, customPositions, idCounter,
                    dragState, history, isGridSnappingEnabled >>

\* return positions
TraverseReturn ==
    /\ TraverseRunning
    /\ Len(lastOp.arg.frames) = 0
    /\ lastOp' = Op("computeLayout", [lastOp.arg EXCEPT !.returned = TRUE])
    /\ UNCHANGED << variant, nodes, selectedId, customPositions, idCounter,
                    dragState, history, isGridSnappingEnabled >>

NextTraverse == TraverseCall \/ TraverseStep \/ TraverseReturn

SpecTraverse == InitTraverse /\ [][NextTraverse]_vars /\ WF_vars(NextTraverse)

(***************************************************************************)
(* getNextIdFromNodes and computeNextIdFromNodes on collections of ids     *)
(***************************************************************************)
\* ids as the app gives them, with one and with two digits, and ids of a
\* loaded document that hold the pattern without being of its form
IdPool ==
    { RootId, NodeId(1), NodeId(10), OtherId, NodePrefix \o << "3", "x" >> }

IdCollections ==
    UNION { [1..n -> { Node(id, "", IF id = RootId THEN Null ELSE RootId) : id \in IdPool }]
            : n \in 0..MaxLoopNodes }

InitNextId ==
    \E ns \in IdCollections :
        /\ variant \in { "file", "import" }
        /\ nodes = ns
        /\ customPositions = EmptyMap
        /\ selectedId = RootId
        /\ idCounter = 1
        /\ isGridSnappingEnabled = FALSE
        /\ dragState = NoDrag
        /\ history = [past |-> << >>, future |-> << >>]
        /\ lastOp = Op("mount", Null)

\* idCounter.current = getNextIdFromNodes(nextNodes)
callGetNextIdFromNodes ==
    /\ variant = "file"
    /\ lastOp.op = "mount"
    /\ idCounter' = getNextIdFromNodes(nodes)
    /\ lastOp' = Op("getNextIdFromNodes", Null)
    /\ UNCHANGED << variant, nodes, selectedId, customPositions, dragState, history,
                    isGridSnappingEnabled >>

\* idCounter.current = computeNextIdFromNodes(freshNodes)
callComputeNextIdFromNodes ==
    /\ variant = "import"
    /\ lastOp.op = "mount"
    /\ idCounter' = computeNextIdFromNodes(nodes)
    /\ lastOp' = Op("computeNextIdFromNodes", Null)
    /\ UNCHANGED << variant, nodes, selectedId, customPositions, dragState, history,
                    isGridSnappingEnabled >>

NextNextId == callGetNextIdFromNodes \/ callComputeNextIdFromNodes

SpecNextId == InitNextId /\ [][NextNextId]_vars

(***************************************************************************)
(* The history under single mutations (undo variant)                       *)
(***************************************************************************)
\* a drag gesture of one pointer: down on a node, moves, up
Gesture ==
    \/ \E id \in RenderedNodes, offset \in GrabOffsets :
          handleNodePointerDown(id, 1, offset)
    \/ \E svgPoint \in Points : Len(nodes) > 0 /\ handleNodePointerMove(1, svgPoint)
    \/ handleNodePointerUp(1)

InitUndo == InitSeed /\ variant = "undo"

\* no drag is under way
Settled == dragState = NoDrag

\* adding a child, typing a label and undo between gestures; the Delete key
\* at any time
NextUndo ==
    \/ Settled /\ addChild
    \/ Settled /\ Typing
    \/ Settled /\ undo
    \/ removeSelectedBranch
    \/ Gesture

SpecUndo == InitUndo /\ [][NextUndo]_vars

\* the history with drags in flight: the Delete key, drag gestures, undo and
\* redo at any time
NextRedo == removeSelectedBranch \/ Gesture \/ undo \/ redo

SpecRedo == InitUndo /\ [][NextRedo]_vars

\* the history under drag gestures: gestures with the grid on or off, the
\* Delete key at any time, undo between gestures
NextGesture ==
    \/ Gesture
    \/ removeSelectedBranch
    \/ Settled /\ toggleGridSnapping
    \/ Settled /\ undo

SpecGesture == InitUndo /\ [][NextGesture]_vars

\* the id counter: every variant, started on the seed tree or on stored data;
\* selecting, adding children, deleting branches, undo, redo, reset, load
NextCounter == Select \/ Edit \/ undo \/ redo \/ handleReset \/ Load

SpecCounter == Init /\ [][NextCounter]_vars

\* the selection: every variant, started on the seed tree or on stored data;
\* selecting, adding children, deleting branches, undo, redo, reset, and
\* loading documents with and without a root
NextSelection == NextCounter \/ LoadLayout

SpecSelection == Init /\ [][NextSelection]_vars

\* what an edit or a drag leaves alone: every variant started on the seed
\* tree; one-pointer drag gestures, adding children and deleting branches at
\* any time
NextFrame == Gesture \/ addChild \/ removeSelectedBranch

SpecFrame == InitSeed /\ [][NextFrame]_vars

\* the labels typed in one behaviour
MaxTyped == 1

TypedLabels == Cardinality({ i \in 1..Len(nodes) : nodes[i].label \in Labels })

\* the overrides under drags: every variant started on the seed tree;
\* one-pointer drag gestures, adding children and typing a label at any time
NextOverride ==
    \/ Gesture
    \/ addChild
    \/ TypedLabels < MaxTyped /\ Typing

SpecOverride == InitSeed /\ [][NextOverride]_vars

(***************************************************************************)
(* Tree Model properties                                                   *)
(***************************************************************************)
\* the parentId of the node of ns with that id
ParentIdOf(ns, id) == (CHOOSE n \in Range(ns) : n.id = id).parentId

\* x is met when the parentId links are followed from id, `steps` times at most
RECURSIVE HasAncestor(_, _, _, _)
HasAncestor(ns, id, x, steps) ==
    /\ steps > 0
    /\ id \in Ids(ns)
    /\ \/ ParentIdOf(ns, id) = x
       \/ HasAncestor(ns, ParentIdOf(ns, id), x, steps - 1)

Descendants(ns, x) == { id \in Ids(ns) : HasAncestor(ns, id, x, Len(ns)) }

RootsOf(ns) == { i \in 1..Len(ns) : ns[i].parentId = Null }

HasUniqueIds(ns) == \A i, j \in 1..Len(ns) : ns[i].id = ns[j].id => i = j

\* the handler of the step just taken is removeSelectedBranch and it removed nodes
BranchRemoved == lastOp.op = "removeSelectedBranch" /\ lastOp.arg # {}

\* the handler of the step just taken is addChild and it appended a node
ChildAdded == lastOp.op = "addChild" /\ lastOp.arg # Null

\* C1 (root uniqueness): from the seed tree, after any sequence of addChild,
\* removeSelectedBranch and updateSelectedLabel, exactly one node has a null
\* parentId, and it is the original root.
C1_RootUniqueness ==
    /\ Cardinality(RootsOf(nodes)) = 1
    /\ \A i \in RootsOf(nodes) : nodes[i].id = RootId

\* a branch has been removed from a tree that had been given a child, the
\* root having been relabelled
C1_Witness ==
    /\ BranchRemoved
    /\ NodeId(3) \in Ids(nodes)
    /\ RootNodeOf(nodes).label \in Labels

\* C2 (cascading delete): removeSelectedBranch on a non-root node X removes
\* exactly X and its transitive descendants, nothing else, and leaves no node
\* whose parentId is X or another removed id.
C2_CascadingDelete ==
    [][BranchRemoved' =>
          LET X == selectedNode.id
              D == {X} \cup Descendants(nodes, X)
          IN  /\ lastOp'.arg = D
              /\ nodes' = SelectSeq(nodes, LAMBDA n : n.id \notin D)
              /\ \A i \in 1..Len(nodes') : nodes'[i].parentId \notin D]_vars

\* a removal that cascaded: the removed node had a descendant
C2_Witness == BranchRemoved /\ Cardinality(lastOp.arg) >= 2

\* C3 (no dangling parentId): in every state reached from the seed tree by
\* addChild, removeSelectedBranch, undo and redo, the parentId of every
\* non-root node is the id of a node of the collection.
C3_NoDanglingParent ==
    \A i \in 1..Len(nodes) :
        nodes[i].parentId # Null => nodes[i].parentId \in Ids(nodes)

\* an undo has brought a removed branch back
C3_Witness ==
    /\ lastOp.op = "undo"
    /\ Len(history.future) > 0
    /\ Ids(nodes) \ Ids(history.future[1].nodes) # {}

\* C4 as the specification words it: each addChild creates the id that follows
\* the largest numeric suffix of the collection it is called on.
C4_NextAfterMaxSuffix ==
    [][ChildAdded' => lastOp'.arg = NodeId(MaxSuffix(nodes, 0) + 1)]_vars

\* C4 (id monotonicity): each addChild creates the id node-c, c being the id
\* counter, and advances the counter by one, so that k successive calls create
\* node-c, node-(c+1), ..., node-(c+k-1) in call order; c is greater than every
\* numeric suffix of the collection (not always the largest suffix plus one:
\* the counter does not go back when the node of the largest suffix is removed),
\* and the id is new to the collection.
C4_IdMonotonicity ==
    [][ChildAdded' =>
          /\ lastOp'.arg = NodeId(idCounter)
          /\ idCounter > MaxSuffix(nodes, 0)
          /\ idCounter' = idCounter + 1
          /\ lastOp'.arg \notin Ids(nodes)
          /\ nodes' = Append(nodes, Node(NodeId(idCounter), "", selectedNode.id))]_vars

\* node-4 has been created on a collection whose largest suffix was 2, node-3
\* having been created and removed before
C4_Witness ==
    /\ ChildAdded
    /\ lastOp.arg = NodeId(4)
    /\ NodeId(3) \notin Ids(nodes)

\* the id the next addChild creates is not an id of ns
NextIdIsNew(ns) == NodeId(idCounter) \notin Ids(ns)

\* C5 (id uniqueness): in every state reached from the seed tree by addChild,
\* removeSelectedBranch, undo, redo and reset, no two nodes of the collection
\* have the same id, and the id the next addChild creates is neither the id of
\* a node of the collection nor of a node that undo or redo can bring back.
C5_IdUniqueness ==
    /\ HasUniqueIds(nodes)
    /\ NextIdIsNew(nodes)
    /\ \A k \in 1..Len(history.past) :
          HasUniqueIds(history.past[k].nodes) /\ NextIdIsNew(history.past[k].nodes)
    /\ \A k \in 1..Len(history.future) :
          HasUniqueIds(history.future[k].nodes) /\ NextIdIsNew(history.future[k].nodes)

\* the addChild that created node-3 has been undone: redo can bring node-3
\* back, and the next addChild creates node-4
C5_Witness ==
    /\ lastOp.op = "undo"
    /\ Len(history.future) > 0
    /\ NodeId(3) \in Ids(history.future[1].nodes)
    /\ NodeId(3) \notin Ids(nodes)
    /\ idCounter = 4

(***************************************************************************)
(* Bulk replacement properties                                             *)
(***************************************************************************)
\* the ids addChild creates from now on, as far as the model lets it go
FutureIds == { NodeId(n) : n \in idCounter..(MaxCounter + 1) }

\* the handler of the step just taken replaced the collection
BulkReplaced == lastOp.op \in { "mount", "handleFileChange", "applyImportedState", "handleReset" }

\* C6 (counter after a bulk replacement): once the collection has been replaced
\* (file load, import, restore from local storage, reset), the counter is above
\* every numeric suffix of the loaded ids, so that no id addChild creates later
\* is an id of the loaded collection; the same holds in every later state.
C6_CounterAfterBulkReplace ==
    /\ idCounter > MaxSuffix(nodes, 0)
    /\ FutureIds \cap Ids(nodes) = {}

\* addChild has created node-4 in a collection loaded from a file, whose ids
\* (xnode-2, node-1, node-3) carry suffixes up to 3
C6_Witness ==
    /\ ChildAdded
    /\ lastOp.arg = NodeId(4)
    /\ OtherId \in Ids(nodes)

(***************************************************************************)
(* Custom-position properties                                              *)
(***************************************************************************)
\* where a drag puts a node when the grid is off
DraggedTo == { Point(p.x - o.x, p.y - o.y) : p \in Points, o \in GrabOffsets }

\* C7 (override pruning): after removeSelectedBranch on X, the custom positions
\* have no key equal to X or to a descendant of X, and the custom positions
\* of the nodes that stay are kept as they were.
C7_OverridePruning ==
    [][BranchRemoved' =>
          LET X == selectedNode.id
              D == {X} \cup Descendants(nodes, X)
          IN  /\ DOMAIN customPositions' \cap D = {}
              /\ \A k \in (DOMAIN customPositions \cap Ids(nodes)) \ D :
                    /\ k \in DOMAIN customPositions'
                    /\ customPositions'[k] = customPositions[k]]_vars

\* a node that had been dragged away was grabbed again and removed with a
\* descendant, a dragged node staying in the collection
C7_Witness ==
    /\ BranchRemoved
    /\ Cardinality(lastOp.arg) >= 2
    /\ dragState.nodeId \in lastOp.arg
    /\ dragState.startPosition \in DraggedTo
    /\ \E k \in DOMAIN customPositions : k \in Ids(nodes)

\* C8 (override map invariant): in every settled state, every key of the
\* custom positions is the id of a node of the collection.
C8_OverrideKeysAreNodes == DOMAIN customPositions \subseteq Ids(nodes)

\* the node being dragged is no longer in the collection
DraggedNodeRemoved == dragState # NoDrag /\ dragState.nodeId \notin Ids(nodes)

\* C9 (drag of a removed node): once the node being dragged has been removed
\* from the collection, a pointermove writes no custom position.
C9_MoveOfRemovedNodeIsNoOp ==
    [][DraggedNodeRemoved /\ lastOp'.op = "handleNodePointerMove" =>
          customPositions' = customPositions]_vars

\* C10 (override precedence): the resolved position of a node that has a layout
\* position and a custom position carries the x and y of the custom position.
C10_OverridePrecedence ==
    \A id \in Ids(nodes) :
        id \in DOMAIN layoutPositions /\ id \in DOMAIN customPositions =>
            /\ positions[id].x = customPositions[id].x
            /\ positions[id].y = customPositions[id].y

\* a drag has given a node a custom position that is not its layout position
C10_Witness ==
    /\ lastOp.op = "handleNodePointerMove"
    /\ \E id \in Ids(nodes) :
          /\ id \in DOMAIN layoutPositions /\ id \in DOMAIN customPositions
          /\ lastOp.arg = id
          /\ \/ customPositions[id].x # layoutPositions[id].x
             \/ customPositions[id].y # layoutPositions[id].y

(***************************************************************************)
(* Position Resolver properties                                            *)
(***************************************************************************)
\* the nodes that have a layout position and a custom position
DoublyPlaced == { id \in Ids(nodes) : id \in DOMAIN layoutPositions /\ id \in DOMAIN customPositions }

\* C11 (override wins for coordinates only): for every node that has a layout
\* position and a custom position, whether a drag wrote it or a loaded
\* document supplied it, the resolved depth, angleStart and angleEnd are the
\* layout's.
C11_OverrideCoordinatesOnly ==
    \A id \in DoublyPlaced :
        /\ positions[id].depth = layoutPositions[id].depth
        /\ positions[id].angleStart = layoutPositions[id].angleStart
        /\ positions[id].angleEnd = layoutPositions[id].angleEnd

\* C12 (resolver coverage): the resolved map has an entry for exactly the
\* nodes of the collection that have a layout position or a custom position;
\* a node with a layout position only resolves to it, a node with a custom
\* position only resolves to it verbatim, and no key is outside the collection.
C12_ResolverCoverage ==
    LET layout == layoutPositions
        resolved == MergePositions(nodes, layout, customPositions)
    IN  /\ DOMAIN resolved =
              { id \in Ids(nodes) : id \in DOMAIN layout \/ id \in DOMAIN customPositions }
        /\ DOMAIN resolved \subseteq Ids(nodes)
        /\ \A id \in DOMAIN resolved :
              /\ id \notin DOMAIN customPositions => resolved[id] = layout[id]
              /\ id \notin DOMAIN layout => resolved[id] = customPositions[id]

\* a collection with a node placed by the layout only, a node outside the
\* layout placed by its custom position, and a node that has neither
C12_Witness ==
    /\ lastOp.op = "handleFileChange"
    /\ RootId \in DOMAIN positions /\ RootId \notin DOMAIN customPositions
    /\ \E id \in Ids(nodes) :
          /\ id \notin DOMAIN layoutPositions
          /\ id \in DOMAIN customPositions
          /\ positions[id] = customPositions[id]
    /\ \E id \in Ids(nodes) : id \notin DOMAIN positions

MinExponent(S) ==
    LET exponents == { d.e : d \in { c \in S : c.m # << >> } }
    IN  IF exponents = {} THEN 0
        ELSE CHOOSE x \in exponents : \A y \in exponents : x <= y

\* the nodes that have a sector and children
PositionedParents(sectors) ==
    { id \in DOMAIN sectors : Len(ChildrenOf(nodes, id)) >= 1 }

\* the sectors of the children of a positioned node, in collection order
ChildSectors(sectors, id) ==
    [i \in 1..Len(ChildrenOf(nodes, id)) |-> sectors[ChildrenOf(nodes, id)[i].id]]

\* the numbers of a sector and of the sectors kids
SectorNumbers(sector, kids) ==
    { sector.angleStart, sector.angleEnd }
        \cup { kids[i].angleStart : i \in 1..Len(kids) }
        \cup { kids[i].angleEnd : i \in 1..Len(kids) }

\* the exact width of a sector, as a multiple of 2^exponent
ExactWidth(sector, exponent) ==
    BigAbsDiff(AtExponent(sector.angleEnd, exponent),
               AtExponent(sector.angleStart, exponent))

\* the first of the sectors kids starts where the sector does, and each of
\* them ends where the next starts
SectorsAdjacent(sector, kids) ==
    /\ kids[1].angleStart = sector.angleStart
    /\ \A i \in 1..Len(kids) - 1 : kids[i].angleEnd = kids[i + 1].angleStart

\* C14 as stated (angular partition coverage): for every positioned node with
\* n >= 1 children and sector [s, e), the first child's angleStart is s, child
\* i's angleEnd is child i+1's angleStart, the last child's angleEnd is e, and
\* each sub-sector has the width (e - s)/n exactly (n times the width is e - s).
C14_ExactPartition ==
    LET sectors == layoutSectors
    IN  \A id \in PositionedParents(sectors) :
            LET kids == ChildSectors(sectors, id)
                n == Len(kids)
                x == MinExponent(SectorNumbers(sectors[id], kids))
            IN  /\ SectorsAdjacent(sectors[id], kids)
                /\ kids[n].angleEnd = sectors[id].angleEnd
                /\ \A i \in 1..n :
                      BigMul(ExactWidth(kids[i], x), n) = ExactWidth(sectors[id], x)

\* 2^-40, as a multiple of 2^exponent
RoundingTolerance(exponent) == ShiftLeft(<< 1 >>, (-40) - exponent)

\* C14 (angular partition coverage, up to rounding): for every positioned node
\* with n >= 1 children and sector [s, e), the first child's angleStart is s,
\* child i's angleEnd is child i+1's angleStart and every sub-sector is not
\* empty; the last child's angleEnd is e and n times each width is e - s up to
\* the rounding of the Number arithmetic (within 2^-40).
C14_AngularPartition ==
    LET sectors == layoutSectors
    IN  \A id \in PositionedParents(sectors) :
            LET kids == ChildSectors(sectors, id)
                n == Len(kids)
                x == MinExponent(SectorNumbers(sectors[id], kids))
            IN  /\ SectorsAdjacent(sectors[id], kids)
                /\ \A i \in 1..n : DoubleLess(kids[i].angleStart, kids[i].angleEnd)
                /\ ~BigLess(RoundingTolerance(x),
                            BigAbsDiff(AtExponent(kids[n].angleEnd, x),
                                       AtExponent(sectors[id].angleEnd, x)))
                /\ \A i \in 1..n :
                      ~BigLess(RoundingTolerance(x),
                               BigAbsDiff(BigMul(ExactWidth(kids[i], x), n),
                                          ExactWidth(sectors[id], x)))

\* a node with three children, one of which has a child of its own, and the
\* three sectors do not have the same exact width
C14_Witness ==
    LET sectors == layoutSectors
    IN  \E id \in PositionedParents(sectors) :
            LET kids == ChildSectors(sectors, id)
                x == MinExponent(SectorNumbers(sectors[id], kids))
            IN  /\ Len(kids) = 3
                /\ ExactWidth(kids[1], x) # ExactWidth(kids[3], x)
                /\ \E other \in PositionedParents(sectors) :
                      ParentIdOf(nodes, other) = id

\* C15 (root placement): the layout is the empty map when no node has a null
\* parentId; otherwise the first node with a null parentId is at x 0, y 0,
\* depth 0 with the sector [0, 2 pi), and for a collection that is the root
\* alone the layout has exactly that one entry.
C15_RootPlacement ==
    IF RootsOf(nodes) = {}
    THEN layoutPositions = EmptyMap /\ layoutSectors = EmptyMap
    ELSE LET first == nodes[Min(RootsOf(nodes))].id
         IN  /\ first \in DOMAIN layoutPositions
             /\ layoutPositions[first] =
                    [x |-> 0, y |-> 0, depth |-> 0,
                     angleStart |-> << 0, 1 >>, angleEnd |-> << 2, 1 >>]
             /\ layoutSectors[first] =
                    [angleStart |-> DoubleZero, angleEnd |-> TwoPiDouble]
             /\ Len(nodes) = 1 => DOMAIN layoutPositions = { first }

\* a document without a root has been loaded: there are nodes and no layout
C15_Witness ==
    /\ lastOp.op \in { "handleFileChange", "applyImportedState" }
    /\ Len(nodes) > 0
    /\ RootsOf(nodes) = {}
    /\ layoutPositions = EmptyMap

\* the nodes whose parentId is the id of no node of the collection
Orphans == { n \in Range(nodes) : n.parentId # Null /\ n.parentId \notin Ids(nodes) }

\* the ids of the nodes of a document, with their number
RawIds(raw) == << { raw[i].id.value : i \in 1..Len(raw) }, Len(raw) >>

\* C16 (orphans): the ids the layout positions are exactly the root and the
\* nodes whose parentId chain reaches the root; a node whose parentId names no
\* node, and its descendants, have no layout position, and a load keeps them
\* in the collection.
C16_OrphansUnplaced ==
    /\ rootNode # NullNode =>
          DOMAIN layoutPositions = { rootNode.id } \cup Descendants(nodes, rootNode.id)
    /\ \A n \in Orphans :
          ({ n.id } \cup Descendants(nodes, n.id)) \cap DOMAIN layoutPositions = {}
    /\ lastOp.op \in { "handleFileChange", "applyImportedState" } =>
          \E d \in Documents : RawIds(d.nodes) = << Ids(nodes), Len(nodes) >>

\* a document with a root, an orphan and a child of the orphan has been loaded
C16_Witness ==
    /\ lastOp.op \in { "handleFileChange", "applyImportedState" }
    /\ rootNode # NullNode /\ rootNode.id \in DOMAIN layoutPositions
    /\ \E n \in Orphans :
          /\ Descendants(nodes, n.id) # {}
          /\ n.id \notin DOMAIN layoutPositions

\* the number of parentId links between a positioned node and the root
RECURSIVE LinksToRoot(_, _)
LinksToRoot(ns, id) ==
    IF ParentIdOf(ns, id) = Null THEN 0 ELSE 1 + LinksToRoot(ns, ParentIdOf(ns, id))

\* the positioned nodes other than the root
PositionedBelowRoot == DOMAIN layoutPositions \ { rootNode.id }

\* the angle in the middle of the sector of a position
MidAngle(position) == RatDivInt(RatAdd(position.angleStart, position.angleEnd), 2)

\* C17 (depth and radius): every positioned node other than the root has its
\* parent's depth plus one, which is the number of parentId links up to the
\* root, and its layout point is at the distance depth * LEVEL_SPACING from the
\* origin (within the error of the model's cosine and of keeping x and y to
\* the unit) in the direction of the middle of its sector.
C17_DepthAndRadius ==
    \A id \in PositionedBelowRoot :
        LET position == layoutPositions[id]
            radius == position.depth * LEVEL_SPACING
            cos == Cos(MidAngle(position))
            sin == Sin(MidAngle(position))
            squared == position.x * position.x + position.y * position.y
        IN  /\ position.depth = layoutPositions[ParentIdOf(nodes, id)].depth + 1
            /\ position.depth = LinksToRoot(nodes, id)
            /\ position.x = RoundDiv(cos[1] * radius, cos[2])
            /\ position.y = RoundDiv(sin[1] * radius, sin[2])
            /\ 100 * Abs(squared - radius * radius) <= radius * radius

\* a node two links below the root is positioned
C17_Witness ==
    \E id \in PositionedBelowRoot :
        /\ layoutPositions[id].depth = 2
        /\ layoutPositions[id].x # 0 /\ layoutPositions[id].y # 0

\* a < b for two fractions with positive denominators
RatLess(a, b) == a[1] * b[2] < b[1] * a[2]

\* a and b are positioned by the layout and have the same parent
PositionedSiblings(ns, layout, a, b) ==
    /\ a # b
    /\ a \in DOMAIN layout /\ b \in DOMAIN layout
    /\ a \in Ids(ns) /\ b \in Ids(ns)
    /\ ParentIdOf(ns, a) # Null
    /\ ParentIdOf(ns, a) = ParentIdOf(ns, b)

\* among positioned siblings the one earlier in the collection has the smaller angleStart
InCollectionOrder(ns, layout) ==
    \A i, j \in 1..Len(ns) :
        i < j /\ PositionedSiblings(ns, layout, ns[i].id, ns[j].id) =>
            RatLess(layout[ns[i].id].angleStart, layout[ns[j].id].angleStart)

\* the child addChild has just appended has the last sub-sector of its parent
AppendedChildIsLast ==
    ChildAdded /\ lastOp.arg \in DOMAIN layoutPositions =>
        /\ layoutPositions[lastOp.arg].angleEnd
               = layoutPositions[ParentIdOf(nodes, lastOp.arg)].angleEnd
        /\ \A id \in Ids(nodes) :
              PositionedSiblings(nodes, layoutPositions, id, lastOp.arg) =>
                  RatLess(layoutPositions[id].angleStart,
                          layoutPositions[lastOp.arg].angleStart)

\* a removeSelectedBranch step keeps the angular order of the siblings that remain
RemovalKeepsOrder ==
    lastOp'.op = "removeSelectedBranch" =>
        \A a, b \in Ids(nodes') :
            PositionedSiblings(nodes', computeLayout(nodes'), a, b) =>
                (RatLess(layoutPositions[a].angleStart, layoutPositions[b].angleStart)
                    <=> RatLess(computeLayout(nodes')[a].angleStart,
                                computeLayout(nodes')[b].angleStart))

\* C18 (sibling order): of two positioned children of the same parent the one
\* earlier in the collection has the sub-sector with the smaller angleStart; a
\* child appended by addChild has the last sub-sector of its parent, and
\* removeSelectedBranch keeps the relative angular order of the siblings that
\* remain.
C18_SiblingOrder ==
    /\ [](InCollectionOrder(nodes, layoutPositions) /\ AppendedChildIsLast)
    /\ [][RemovalKeepsOrder]_vars

\* a branch has been removed and two of its siblings remain
C18_Witness ==
    /\ BranchRemoved
    /\ \E a, b \in Ids(nodes) : PositionedSiblings(nodes, layoutPositions, a, b)

(***************************************************************************)
(* Editing properties                                                      *)
(***************************************************************************)
\* the step is removeSelectedBranch asked of the root
RemovalAskedOfRoot ==
    /\ lastOp'.op = "removeSelectedBranch"
    /\ rootNode # NullNode
    /\ selectedNode.id = rootNode.id

\* C19 (the root is never deleted): removeSelectedBranch asked of the root
\* leaves the collection, the custom positions, the id counter and the
\* selection as they are; no removeSelectedBranch step changes the root, and
\* in every state the collection has its root.
C19_RootNeverDeleted ==
    /\ [](rootNode # NullNode /\ rootNode.id \in Ids(nodes))
    /\ [][lastOp'.op = "removeSelectedBranch" => RootNodeOf(nodes') = rootNode]_vars
    /\ [][RemovalAskedOfRoot =>
             UNCHANGED << nodes, customPositions, idCounter, selectedId >>]_vars

\* removeSelectedBranch has been asked of the root of a tree that has
\* children and custom positions, and did nothing
C19_Witness ==
    /\ lastOp.op = "removeSelectedBranch" /\ lastOp.arg = {}
    /\ selectedId = rootNode.id
    /\ Len(nodes) > 1
    /\ customPositions # EmptyMap

\* C20 (addChild): an addChild step with a selected node appends exactly one
\* node, with an id the collection did not hold, an empty label and the
\* selected node's id as parentId, and leaves the other nodes and their order
\* as they were; without a selected node (no node has the selected id and
\* there is no root to fall back on) the step adds no node and does not
\* consume the id counter.
C20_AddChild ==
    [][lastOp'.op = "addChild" =>
          IF selectedNode = NullNode
          THEN UNCHANGED << nodes, idCounter, selectedId, customPositions >>
          ELSE /\ Len(nodes') = Len(nodes) + 1
               /\ SubSeq(nodes', 1, Len(nodes)) = nodes
               /\ nodes'[Len(nodes')].id \notin Ids(nodes)
               /\ nodes'[Len(nodes')].id = NodeId(idCounter)
               /\ nodes'[Len(nodes')].label = ""
               /\ nodes'[Len(nodes')].parentId = selectedNode.id
               /\ nodes'[Len(nodes')].parentId \in Ids(nodes)
               /\ idCounter' = idCounter + 1]_vars

\* addChild has been called with nothing selected, on an empty collection
\* whose counter is ready to give an id, and did nothing
C20_Witness ==
    /\ lastOp.op = "addChild" /\ lastOp.arg = Null
    /\ selectedNode = NullNode
    /\ nodes = << >>
    /\ idCounter = 1

(***************************************************************************)
(* C21: updateSelectedLabel replaces the label of the node that has the    *)
(* selected node's id and changes nothing else: ids, parentIds, the order  *)
(* of the collection, the other labels, the custom positions, the          *)
(* selection and the counter stay; without a selected node it does         *)
(* nothing; typing the same text again changes nothing further             *)
(***************************************************************************)
RelabelsOnly(id) ==
    /\ Len(nodes') = Len(nodes)
    /\ \A i \in 1..Len(nodes) :
          /\ nodes'[i].id = nodes[i].id
          /\ nodes'[i].parentId = nodes[i].parentId
          /\ nodes[i].id # id => nodes'[i].label = nodes[i].label
          /\ nodes[i].id = id => nodes'[i].label \in Labels
    /\ UNCHANGED << customPositions, selectedId, idCounter >>

PushedOnce(pushed) ==
    \A i, j \in 1..Len(pushed) : i # j => pushed[i] # pushed[j]

C22_BranchTerminates ==
    /\ [](lastOp.op = "getBranchToDelete"
          => /\ PushedOnce(lastOp.arg.pushed)
             /\ lastOp.arg.toDelete = { lastOp.arg.pushed[i] : i \in 1..Len(lastOp.arg.pushed) }
             /\ lastOp.arg.returned
                => lastOp.arg.toDelete = getBranchToDelete(nodes, selectedId))
    /\ <>(lastOp.op = "getBranchToDelete" /\ lastOp.arg.returned)

\* returned on a collection with a circle of two nodes and a repeated id
C22_Witness ==
    /\ lastOp.op = "getBranchToDelete"
    /\ lastOp.arg.returned
    /\ lastOp.arg.toDelete = BranchIds
    /\ \E i, j, k \in 1..Len(nodes) :
          /\ i # j
          /\ nodes[i].id = selectedId /\ nodes[i].parentId = nodes[j].id
          /\ nodes[j].id # selectedId /\ nodes[j].parentId = selectedId
          /\ k \notin {i, j} /\ nodes[k].id = nodes[j].id

(***************************************************************************)
(* C23: computeLayout returns on every finite collection with unique ids,  *)
(* whether parentId links run in a circle or name no node: traverse goes   *)
(* from the root along parent-to-child links, writes the position of each  *)
(* node at most once and never that of the root, and what it has written   *)
(* on return is the layout                                                 *)
(***************************************************************************)
C23_LayoutTerminates ==
    /\ [](lastOp.op = "computeLayout"
          => /\ PushedOnce(lastOp.arg.placed)
             /\ \A i \in 1..Len(lastOp.arg.placed) :
                   /\ lastOp.arg.placed[i] # rootNode.id
                   /\ \E k \in 1..Len(nodes) :
                         /\ nodes[k].id = lastOp.arg.placed[i]
                         /\ nodes[k].parentId \in
                               {rootNode.id} \cup { lastOp.arg.placed[j] : j \in 1..(i - 1) }
             /\ Len(lastOp.arg.frames) <= Len(nodes)
             /\ lastOp.arg.returned
                => DOMAIN computeLayout(nodes)
                   = { lastOp.arg.placed[i] : i \in 1..Len(lastOp.arg.placed) }
                     \cup (IF rootNode = NullNode THEN {} ELSE {rootNode.id}))
    /\ <>(lastOp.op = "computeLayout" /\ lastOp.arg.returned)

\* returned with the root alone placed while the two other nodes link to
\* each other
C23_Witness ==
    /\ lastOp.op = "computeLayout"
    /\ lastOp.arg.returned
    /\ DOMAIN computeLayout(nodes) = {RootId}
    /\ \E i, j \in 1..Len(nodes) :
          /\ i # j
          /\ nodes[i].parentId = nodes[j].id
          /\ nodes[j].parentId = nodes[i].id

(***************************************************************************)
(* C24: an import keeps every record of the document that has an id, with  *)
(* the empty label where the label is missing or not a string and with     *)
(* parentId null where the parentId is missing or not a string             *)
(***************************************************************************)
WithSafeDefaults(raw) ==
    LET kept == SelectSeq(raw, LAMBDA n : "id" \in DOMAIN n /\ n.id.type = "string")
    IN  [i \in 1..Len(kept) |->
            Node(kept[i].id.value,
                 IF "label" \in DOMAIN kept[i] /\ kept[i].label.type = "string"
                 THEN kept[i].label.value ELSE "",
                 IF "parentId" \in DOMAIN kept[i] /\ kept[i].parentId.type = "string"
                 THEN kept[i].parentId.value ELSE Null)]

C24_SafeDefaults ==
    [][lastOp'.op = "applyImportedState" /\ nodes' # nodes
       => \E rawState \in MalformedDocuments : nodes' = WithSafeDefaults(rawState.nodes)]_vars

(***************************************************************************)
(* C25: the collection never holds more than one node whose parentId is    *)
(* null, and after a load that leaves none the first node is the selected  *)
(* one                                                                     *)
(***************************************************************************)
C25_AtMostOneRoot ==
    /\ Cardinality({ i \in 1..Len(nodes) : nodes[i].parentId = Null }) <= 1
    /\ /\ lastOp.op \in { "handleFileChange", "applyImportedState" }
       /\ rootNode = NullNode
       /\ Len(nodes) > 0
       => selectedId = nodes[1].id

(***************************************************************************)
(* C26: a reset leaves no custom position; a load leaves exactly the       *)
(* custom positions of the loaded document whose id is the id of a loaded  *)
(* node; no custom position held before either of them is held after it    *)
(***************************************************************************)
LoadedFrom(data, loaded) ==
    /\ nodes' = loaded
    /\ customPositions' = Restrict(data.customPositions, Ids(loaded))

C26_OverridesReplaced ==
    [][/\ lastOp'.op = "handleReset" => customPositions' = EmptyMap
       /\ lastOp'.op = "handleFileChange"
          => \E data \in Documents : LoadedFrom(data, CopyNodes(data.nodes))
       /\ lastOp'.op = "applyImportedState"
          => \E rawState \in Documents : LoadedFrom(rawState, SanitizeNodes(rawState.nodes))]_vars

\* a reset in the middle of a drag that began on a node held at a custom
\* position
C26_Witness ==
    /\ lastOp.op = "handleReset"
    /\ dragState.nodeId \in Ids(nodes)
    /\ Point(dragState.startPosition.x, dragState.startPosition.y)
          # Point(layoutPositions[dragState.nodeId].x, layoutPositions[dragState.nodeId].y)
    /\ customPositions = EmptyMap

(***************************************************************************)
(* C27: a pointerdown on a node other than the root begins a drag that     *)
(* holds the node's resolved position; while the drag lasts every          *)
(* pointermove of its pointer at p writes, for the dragged node, the start *)
(* position plus p minus the start pointer, each coordinate on the nearest *)
(* multiple of GRID_SIZE when the grid is on; a pointermove of another     *)
(* pointer, or with no drag, writes nothing; pointerup and pointercancel   *)
(* end the drag and write nothing                                          *)
(***************************************************************************)
\* t is v, or with the grid on a multiple of GRID_SIZE nearest to v
OnGrid(v, t) ==
    IF isGridSnappingEnabled
    THEN t % GRID_SIZE = 0 /\ 2 * (t - v) <= GRID_SIZE /\ 2 * (v - t) <= GRID_SIZE
    ELSE t = v

\* custom is the map after a move of the drag to p
MovedTo(custom, p) ==
    /\ DOMAIN custom = DOMAIN customPositions \cup {dragState.nodeId}
    /\ \A id \in DOMAIN customPositions \ {dragState.nodeId} : custom[id] = customPositions[id]
    /\ DOMAIN custom[dragState.nodeId] = { "x", "y" }
    /\ OnGrid(dragState.startPosition.x + (p.x - dragState.startPointer.x),
              custom[dragState.nodeId].x)
    /\ OnGrid(dragState.startPosition.y + (p.y - dragState.startPointer.y),
              custom[dragState.nodeId].y)

\* the undo variant returns from the first moves of a drag that ask for the
\* start position, and the model stops recording at MaxHistory snapshots
MoveIsTaken(p) ==
    variant = "undo" /\ ~dragState.historyRecorded
    => /\ NextPosition(p) # dragState.startPosition
       /\ HistoryHasRoom(dragState.historySnapshot)

DragSteps ==
    /\ lastOp'.op = "handleNodePointerDown"
       => IF lastOp'.arg = rootNode.id THEN UNCHANGED << dragState, customPositions >>
          ELSE /\ dragState'.nodeId = lastOp'.arg
               /\ dragState'.startPosition
                     = Point(positions[lastOp'.arg].x, positions[lastOp'.arg].y)
               /\ UNCHANGED customPositions
    /\ lastOp'.op = "handleNodePointerMove"
       => \/ UNCHANGED customPositions
          \/ dragState # NoDrag /\ \E p \in Points : MovedTo(customPositions', p)
    /\ lastOp'.op \in { "handleNodePointerUp", "handleNodePointerCancel" }
       => dragState' = NoDrag /\ UNCHANGED customPositions

C27_DragLifecycle ==
    /\ [][DragSteps]_vars
    /\ [](\A pointerId \in PointerIds, p \in Points :
            Len(nodes) > 0 =>
                IF dragState # NoDrag /\ dragState.pointerId = pointerId
                THEN MoveIsTaken(p)
                     => ENABLED (handleNodePointerMove(pointerId, p)
                                 /\ MovedTo(customPositions', p))
                ELSE ~ENABLED (handleNodePointerMove(pointerId, p)
                               /\ customPositions' # customPositions))

\* a move of a drag with the grid on has put the node on the grid, away from
\* where the pointer asked
C27_Witness ==
    /\ lastOp.op = "handleNodePointerMove"
    /\ isGridSnappingEnabled
    /\ dragState # NoDrag
    /\ dragState.nodeId = lastOp.arg
    /\ dragState.nodeId \in DOMAIN customPositions
    /\ customPositions[dragState.nodeId].x % GRID_SIZE = 0
    /\ \E p \in Points :
          customPositions[dragState.nodeId].x
             # dragState.startPosition.x + (p.x - dragState.startPointer.x)

(***************************************************************************)
(* C28: reading back what was saved (local storage and a restart, an       *)
(* exported file imported, a saved file loaded) gives the node collection  *)
(* that was saved, with ids, labels, parentIds and order, the view         *)
(* transform that was saved, the saved custom positions of the nodes of    *)
(* the collection, and a counter not below the saved one                   *)
(***************************************************************************)
Saved == lastOp.op \in { "saveState", "handleExportToFile", "handleSave" }

ReadsBackSaved ==
    /\ Saved
    /\ lastOp'.op \in { "mount", "applyImportedState", "handleFileChange" }

ViewReadBack ==
    CASE lastOp.op = "saveState" -> StoredViewTransform(lastOp.arg.viewTransform)
      [] lastOp.op = "handleExportToFile" -> ImportedViewTransform(lastOp.arg.viewTransform)
      [] lastOp.op = "handleSave" -> LoadedViewTransform(lastOp.arg.viewTransform)

CounterKept == lastOp.op \in { "saveState", "handleExportToFile" } => idCounter' >= idCounter

RemovesFromCurrent ==
    /\ lastOp'.arg = getBranchToDelete(nodes, selectedNode.id)
    /\ nodes' = SelectSeq(nodes, LAMBDA n : n.id \notin lastOp'.arg)
    /\ \A i \in 1..Len(nodes') : nodes'[i].parentId \notin lastOp'.arg
    /\ lastOp.op = "addChild" /\ lastOp.arg = nodes[Len(nodes)].id
       => /\ selectedNode.id = lastOp.arg
          /\ lastOp.arg \in lastOp'.arg

AppendsToCurrent ==
    /\ nodes' = Append(nodes, Node(lastOp'.arg, "", selectedNode.id))
    /\ selectedNode.id \in Ids(nodes)
    /\ lastOp.op = "removeSelectedBranch" => selectedNode.id \notin lastOp.arg

NextIdComputed == lastOp.op \in { "getNextIdFromNodes", "computeNextIdFromNodes" }

\* the digits after the prefix when s is the prefix and digits, else none
WholeIdSuffix(s) ==
    IF /\ Len(s) > Len(NodePrefix)
       /\ SubSeq(s, 1, Len(NodePrefix)) = NodePrefix
       /\ \A i \in (Len(NodePrefix) + 1)..Len(s) : IsDigit(s[i])
    THEN { ParseInt(SubSeq(s, Len(NodePrefix) + 1, Len(s))) }
    ELSE {}

\* the places of s where "node-" and a digit begin
PatternPlaces(s) ==
    { i \in 1..Len(s) :
        /\ i + Len(NodePrefix) <= Len(s)
        /\ \A k \in 1..Len(NodePrefix) : s[i + k - 1] = NodePrefix[k]
        /\ IsDigit(s[i + Len(NodePrefix)]) }

\* the number written by the digits that follow the first of these places
FirstPlaceSuffix(s) ==
    { n \in 0..99 :
        \E i \in PatternPlaces(s), j \in 1..Len(s) :
            /\ \A other \in PatternPlaces(s) : i <= other
            /\ j >= i + Len(NodePrefix)
            /\ \A k \in (i + Len(NodePrefix))..j : IsDigit(s[k])
            /\ j = Len(s) \/ ~IsDigit(s[j + 1])
            /\ n = ParseInt(SubSeq(s, i + Len(NodePrefix), j)) }

Largest(S) == CHOOSE x \in S \cup {0} : \A y \in S \cup {0} : y <= x

\* the claim as worded: only the ids of the form node-<integer> count
C30_IdsOfTheForm ==
    NextIdComputed
    => idCounter = 1 + Largest(UNION { WholeIdSuffix(nodes[i].id) : i \in 1..Len(nodes) })

C30_NextId ==
    NextIdComputed
    => idCounter = 1 + Largest(UNION { FirstPlaceSuffix(nodes[i].id) : i \in 1..Len(nodes) })

\* the next id of a collection in which the largest number follows "node-"
\* in an id that is not of the form node-<integer>
C30_Witness ==
    /\ NextIdComputed
    /\ idCounter = 4
    /\ NodeId(1) \in Ids(nodes)
    /\ RootId \in Ids(nodes)

(***************************************************************************)
(* C31: in the undo variant, right after an addChild or a deleteBranch     *)
(* that changed the collection, and right after a drag gesture that moved  *)
(* its node, one undo restores the node collection, the selection and the  *)
(* override entries of the nodes of the collection to their values before  *)
(* the mutation (for a drag: before its pointer-down); setLabel pushes no  *)
(* snapshot, so an undo after it does not restore the label alone          *)
(***************************************************************************)
\* the values a snapshot has to give back
Before(ns, custom, sel) == Snapshot(ns, Restrict(custom, Ids(ns)), sel)

\* undo can be taken and gives back the values of `before`
UndoRestores(before) ==
    ENABLED ( /\ undo
              /\ nodes' = before.nodes
              /\ customPositions' = before.customPositions
              /\ selectedId' = before.selectedId )

\* an addChild or deleteBranch step that changed the collection
EditStep ==
    /\ lastOp'.op \in { "addChild", "removeSelectedBranch" }
    /\ nodes' # nodes

\* a setLabel step that changed a label
LabelStep ==
    /\ lastOp'.op = "updateSelectedLabel"
    /\ nodes' # nodes

\* the pointer-up of a gesture that moved its node, with no deleteBranch
\* since its pointer-down
DragCompleted ==
    /\ lastOp'.op = "handleNodePointerUp"
    /\ dragState.historyRecorded
    /\ nodes = dragState.historySnapshot.nodes

\* the snapshot of a gesture is the state at its pointer-down, and stays
DragSnapshotKept ==
    /\ lastOp'.op = "handleNodePointerDown" /\ dragState' # dragState
           => dragState'.historySnapshot = Snapshot(nodes, customPositions, selectedId)
    /\ lastOp'.op = "handleNodePointerMove" /\ dragState # NoDrag
           => dragState'.historySnapshot = dragState.historySnapshot

Pruned(snapshot) ==
    Snapshot(snapshot.nodes,
             Restrict(snapshot.customPositions, Ids(snapshot.nodes)),
             snapshot.selectedId)

PrunedHistory(h) ==
    [past |-> [i \in DOMAIN h.past |-> Pruned(h.past[i])],
     future |-> [i \in DOMAIN h.future |-> Pruned(h.future[i])]]

\* undo can be taken and gives exactly the state and the stacks of `before`
UndoGivesBack(before, stacks) ==
    ENABLED ( /\ undo
              /\ nodes' = before.nodes
              /\ customPositions' = before.customPositions
              /\ selectedId' = before.selectedId
              /\ history' = stacks )

RedoGivesBack(before, stacks) ==
    ENABLED ( /\ redo
              /\ nodes' = before.nodes
              /\ customPositions' = before.customPositions
              /\ selectedId' = before.selectedId
              /\ history' = stacks )

\* the same, the stacks compared without their stale override entries
UndoGivesBackPruned(before, stacks) ==
    ENABLED ( /\ undo
              /\ nodes' = before.nodes
              /\ customPositions' = before.customPositions
              /\ selectedId' = before.selectedId
              /\ PrunedHistory(history') = stacks )

RedoGivesBackPruned(before, stacks) ==
    ENABLED ( /\ redo
              /\ nodes' = before.nodes
              /\ customPositions' = before.customPositions
              /\ selectedId' = before.selectedId
              /\ PrunedHistory(history') = stacks )

StateChange ==
    /\ lastOp'.op \in { "addChild", "removeSelectedBranch", "handleNodePointerMove" }
    /\ \/ nodes' # nodes
       \/ customPositions' # customPositions
       \/ selectedId' # selectedId

C33_RedoStackEmptied ==
    [][ /\ StateChange => history'.future = << >>
        /\ lastOp'.op = "undo" /\ history.past = << >>
               => UNCHANGED << nodes, customPositions, selectedId, history >>
        /\ lastOp'.op = "redo" /\ history.future = << >>
               => UNCHANGED << nodes, customPositions, selectedId, history >> ]_vars

(***************************************************************************)
(* C34: a drag gesture pushes at most one snapshot on the undo stack: the  *)
(* state captured at its pointer-down, pushed by the first move that puts  *)
(* the node off its start position; a gesture whose node never moves       *)
(* pushes none; one undo after a gesture that moved gives back the         *)
(* override entries the nodes had before the gesture                       *)
(***************************************************************************)
\* a pointermove changed the undo stack
MovePushes ==
    /\ lastOp'.op = "handleNodePointerMove"
    /\ history' # history

\* the node of the gesture is put off the position it had at pointer-down
MovesOffStart ==
    /\ dragState.nodeId \in DOMAIN customPositions'
    /\ \/ customPositions'[dragState.nodeId].x # dragState.startPosition.x
       \/ customPositions'[dragState.nodeId].y # dragState.startPosition.y

\* undo can be taken and leaves the override map `custom`
UndoGivesOverrides(custom) == ENABLED (undo /\ customPositions' = custom)

C35_CounterAboveIds ==
    /\ \A i \in 1..Len(nodes) :
          \A n \in WholeIdSuffix(nodes[i].id) : idCounter > n
    /\ NodeId(idCounter) \notin Ids(nodes)

\* the storage variant has started on stored nodes up to node-3 and a stored
\* counter of 1, and addChild has created node-4
C35_Witness ==
    /\ lastOp.op = "addChild"
    /\ variant = "storage"
    /\ lastOp.arg = NodeId(4)
    /\ NodeId(3) \in Ids(nodes)
    /\ OtherId \in Ids(nodes)
    /\ idCounter = 5

(***************************************************************************)
(* C36: whenever the collection has a root, after every handler and its    *)
(* effects selectedId is the id of a node of the collection and the        *)
(* selected node is that node; an addChild that adds a node leaves the new *)
(* node selected, a deleteBranch that removes nodes leaves the root        *)
(* selected                                                                *)
(***************************************************************************)
SelectionIsNode ==
    rootNode # NullNode
    => /\ selectedId \in Ids(nodes)
       /\ \E i \in 1..Len(nodes) : nodes[i] = selectedNode /\ nodes[i].id = selectedId

C36_SelectionValidity ==
    /\ []SelectionIsNode
    /\ [][ /\ lastOp'.op = "addChild" /\ nodes' # nodes
               => /\ selectedId' = nodes'[Len(nodes')].id
                  /\ selectedId' \notin Ids(nodes)
           /\ lastOp'.op = "removeSelectedBranch" /\ nodes' # nodes /\ rootNode # NullNode
               => /\ selectedId' = rootNode.id
                  /\ selectedId' = RootNodeOf(nodes').id ]_vars

\* a load has replaced the collection while a node was selected that the
\* loaded document does not have, and the root of the document is selected
C36_Witness ==
    /\ lastOp.op \in { "handleFileChange", "applyImportedState" }
    /\ rootNode # NullNode
    /\ selectedId = rootNode.id
    /\ NodeId(2) \notin Ids(nodes)
    /\ Len(nodes) > 1

(***************************************************************************)
(* C37: a deleteBranch of X that removes nodes leaves every node outside   *)
(* the branch of X in the collection, unchanged and in the same relative   *)
(* order, leaves the override entries of these nodes as they were, and     *)
(* leaves the id counter as it was                                         *)
(***************************************************************************)
\* the place of the node of this id in ns
IndexOf(ns, id) == CHOOSE i \in 1..Len(ns) : ns[i].id = id

\* the nodes of `after` are nodes of `before`, unchanged and in the same order
KeptInOrder(before, after) ==
    /\ \A i \in 1..Len(after) : \E j \in 1..Len(before) : before[j] = after[i]
    /\ \A i, j \in 1..Len(after) :
          i < j => IndexOf(before, after[i].id) < IndexOf(before, after[j].id)

C37_DeleteBranchFrame ==
    [][ lastOp'.op = "removeSelectedBranch" /\ nodes' # nodes
            => LET X == selectedNode.id
                   outside == Ids(nodes) \ ({X} \cup Descendants(nodes, X))
               IN  /\ Ids(nodes') = outside
                   /\ KeptInOrder(nodes, nodes')
                   /\ \A id \in outside :
                         /\ id \in DOMAIN customPositions' <=> id \in DOMAIN customPositions
                         /\ id \in DOMAIN customPositions
                                => customPositions'[id] = customPositions[id]
                   /\ idCounter' = idCounter ]_vars

\* node-3, created by addChild, has been removed; node-1 and node-2 stay
\* where drags have put them, and the counter stays at 4
C37_Witness ==
    /\ lastOp.op = "removeSelectedBranch"
    /\ lastOp.arg = { NodeId(3) }
    /\ idCounter = 4
    /\ DOMAIN customPositions = { NodeId(1), NodeId(2) }

(***************************************************************************)
(* C38: a pointer move of a drag of node N changes no override entry but   *)
(* that of N, and leaves the node collection, the id counter, the layout   *)
(* and the resolved position of every other node, the children of N        *)
(* included, as they were; pointer-down and pointer-up change none of      *)
(* these; N is never the root, and the root has no override entry; an      *)
(* addChild and a setLabel create no override entry                        *)
(***************************************************************************)
\* the override entries of the ids other than `id` are the same in both maps
SameOverridesBut(id, before, after) ==
    \A k \in (DOMAIN before \cup DOMAIN after) \ { id } :
        /\ k \in DOMAIN before
        /\ k \in DOMAIN after
        /\ after[k] = before[k]

\* the resolved positions of the nodes other than `id` are the same
SamePositionsBut(id, before, after) ==
    /\ DOMAIN before \ { id } = DOMAIN after \ { id }
    /\ \A k \in DOMAIN before \ { id } : after[k] = before[k]

\* every entry of `after` is an entry of `before`
NoNewOverride(before, after) ==
    /\ DOMAIN after \subseteq DOMAIN before
    /\ \A k \in DOMAIN after : after[k] = before[k]

C38_DragFrame ==
    /\ [](rootNode # NullNode => rootNode.id \notin DOMAIN customPositions)
    /\ [][ /\ lastOp'.op = "handleNodePointerMove" /\ customPositions' # customPositions
               => /\ dragState.nodeId # rootNode.id
                  /\ dragState.nodeId \in DOMAIN customPositions'
                  /\ SameOverridesBut(dragState.nodeId, customPositions, customPositions')
                  /\ nodes' = nodes
                  /\ idCounter' = idCounter
                  /\ computeLayout(nodes') = layoutPositions
                  /\ SamePositionsBut(
                         dragState.nodeId, positions,
                         MergePositions(nodes', computeLayout(nodes'), customPositions'))
           /\ lastOp'.op \in { "handleNodePointerDown", "handleNodePointerUp" }
               => UNCHANGED << nodes, idCounter, customPositions >>
           /\ lastOp'.op \in { "addChild", "updateSelectedLabel" }
               => NoNewOverride(customPositions, customPositions') ]_vars

\* node-1 has been dragged off its place while its child node-3 has no
\* override and stays on its layout position
C38_Witness ==
    /\ lastOp.op = "handleNodePointerMove"
    /\ lastOp.arg = NodeId(1)
    /\ DOMAIN customPositions = { NodeId(1) }
    /\ \E i \in 1..Len(nodes) : nodes[i].id = NodeId(3) /\ nodes[i].parentId = NodeId(1)
    /\ positions[NodeId(3)] = layoutPositions[NodeId(3)]

(***************************************************************************)
(* C39: an addChild on a positioned node P, and a removeSelectedBranch on  *)
(* a child of a positioned node P, change layout positions and sectors     *)
(* only below P: P itself and every node that is not a descendant of P     *)
(* keep their layout position, their depth and their sector, and the       *)
(* positioned nodes that are not descendants of P are the same before and  *)
(* after                                                                   *)
(***************************************************************************)
\* the layout of the collection `after` agrees with that of `before` on every
\* node that is not below P
LayoutKeptOutside(P, before, after) ==
    LET outside == DOMAIN computeLayout(before) \ Descendants(before, P)
    IN  /\ DOMAIN computeLayout(after) \ Descendants(after, P) = outside
        /\ \A id \in outside :
               /\ computeLayout(after)[id] = computeLayout(before)[id]
               /\ computeSectors(after)[id] = computeSectors(before)[id]

C39_LayoutLocality ==
    [][ /\ lastOp'.op = "addChild" /\ nodes' # nodes
            /\ selectedNode.id \in DOMAIN layoutPositions
            => LayoutKeptOutside(selectedNode.id, nodes, nodes')
        /\ (/\ lastOp'.op = "removeSelectedBranch" /\ nodes' # nodes
            /\ selectedNode.parentId # Null
            /\ selectedNode.parentId \in DOMAIN layoutPositions)
            => LayoutKeptOutside(selectedNode.parentId, nodes, nodes') ]_vars

\* addChild has put a node under node-1 while node-2, a child of the root,
\* is positioned beside node-1
C39_Witness ==
    /\ lastOp.op = "addChild"
    /\ lastOp.arg # Null
    /\ \E i \in 1..Len(nodes) :
           nodes[i].id = lastOp.arg /\ nodes[i].parentId = NodeId(1)
    /\ NodeId(1) \in DOMAIN layoutPositions
    /\ NodeId(2) \in DOMAIN layoutPositions
    /\ layoutPositions[NodeId(2)].depth = 1

(***************************************************************************)
(* C40: in every layout the sector of each positioned node other than the  *)
(* root has angleStart < angleEnd and lies within the sector of its        *)
(* parent, and of two distinct positioned nodes of the same depth one      *)
(* sector ends no later than the other starts (the angles compared as the  *)
(* Numbers computeLayout computes)                                         *)
(***************************************************************************)
\* a <= b for Numbers
DoubleLessEq(a, b) == ~DoubleLess(b, a)

\* the sector [angleStart, angleEnd) is not empty
SectorPositive(sector) == DoubleLess(sector.angleStart, sector.angleEnd)

\* the sector `inner` lies within the sector `outer`
SectorWithin(inner, outer) ==
    /\ DoubleLessEq(outer.angleStart, inner.angleStart)
    /\ DoubleLessEq(inner.angleEnd, outer.angleEnd)

\* the sectors a and b have no angle in common
SectorsDisjoint(a, b) ==
    \/ DoubleLessEq(a.angleEnd, b.angleStart)
    \/ DoubleLessEq(b.angleEnd, a.angleStart)

=============================================================================
